---- MODULE Spec2Model ----
(***************************************************************************)
(* Celebeaty: playback synchronisation between a sender and its receivers. *)
(*                                                                         *)
(* Two client generations live in the repository:                          *)
(*   "follow" - src/frontend/src/App.js  (presence / follow / track|pause) *)
(*   "room"   - src/Poll/Thresholds      (rooms / sync messages)           *)
(*                                                                         *)
(* The module holds these state machines over one set of variables:        *)
(*   Spec        the follow-based receiver, handlers overlapping           *)
(*   RoomSpec    the room-based receiver, handlers overlapping             *)
(*   ResumeSpec  either receiver getting a pause and then a track event    *)
(*   DeviceSpec  either receiver handling one event, every device list     *)
(*   SenderSpec  the sender poll loop of both clients                      *)
(*   SnapshotSpec  a follow-based sender asked for snapshots while playing *)
(*   PausedSpec  the sender poll loop over a player that may start paused  *)
(*   LobbySpec   the presence directory and the follow graph of a client   *)
(*   StopSpec    a follow-based sender starting and stopping, ticks waiting *)
(*   ProxySpec   one request at a time to the Spotify-facing routes        *)
(*   HubSpec     the WebSocket servers: upgrade, messages, heartbeat       *)
(*   MeshSpec    a lobby client and a peer on the broadcast relay          *)
(*   IdleSpec    a follow-based sender over a player that may be empty     *)
(*   FaultSpec   a follow-based sender whose ticks may fail                *)
(* Every async handler is cut at its awaits: one action per resumption.    *)
(* Time is in milliseconds.                                                *)
(***************************************************************************)
EXTENDS Integers, Sequences, FiniteSets, TLC

VARIABLES
    variant,          \* "follow" | "room": the client implementation running
    clock,            \* Date.now()
    \* ---- receiver ----
    mode,             \* App.js mode / Thresholds role: "idle" | "receiver"
    followingUserId,  \* App.js followingUserId ("none" = null)
    recvNow,          \* <<>> = null, <<r>> = the state object
    recvNowSeen,      \* room: the recvNow captured by the onmessage closure
    lastSyncRef,      \* room: lastSyncRef.current (<<>> = null)
    pausedTargetRef,  \* room: pausedTargetRef.current (<<>> = null)
    meKnown,          \* room: whether /whoami has answered (me is set)
    hint,             \* the user-visible hint
    received,         \* the last two events accepted from the followed sender
    handlers,         \* one record per accepted event: the async handler's position
    lastSel,          \* the device list answered last and the device chosen from it
    lastCmd,          \* the provider command issued last
    \* ---- sender ----
    isSharing,            \* mode === "sender" && isSharing (role === "sender" && isSharing)
    readyState,           \* ws.current.readyState: "CONNECTING" | "OPEN"
    player,               \* the sender's Spotify player: <<>> = no item, <<p>> = what it plays
    senderNow,            \* <<>> = null, <<s>> = the last poll's observation
    nextPoll,             \* when the poll interval fires next
    hasSentInitialRef,    \* follow: hasSentInitialRef.current
    lastBroadcastRef,     \* follow: lastBroadcastRef.current
    lastPresencePingRef,  \* follow: lastPresencePingRef.current
    last,                 \* room: the poll effect's `last` (<<>> = null)
    pauseCooldownUntilRef,\* room: pauseCooldownUntilRef.current
    sent,                 \* the playback message sent last, numbered
    opsLeft,              \* the user's remaining actions: on the player, or stopping
    inFlight,             \* follow: a tick is waiting for the answer of /currently-playing
    \* ---- lobby (follow-based client) ----
    liveMap,          \* the Map of live senders, in insertion order
    liveList,         \* the memoised list the lobby shows (ids)
    followers,        \* Map target -> Map follower: a function on the targets seen
    roundTrip,        \* the follow (or the stop, f = "none") last processed, the graph
                      \* before it, and whether the matching unfollow came next
    \* ---- backend ----
    proxy,            \* the HTTP request being served and what serving it has done
    wsClients,        \* wss.clients: per connection its state, isAlive and meta
    rooms,            \* rooms: roomId -> Set(ws)
    directory,        \* directory: roomId -> entry, in insertion order
    delivered,        \* per connection, what the server sent to it in the handler that ran last
    handled           \* what the WebSocket server handled last (an upgrade request or a
                      \* message) and what it did with it

recvVars == <<mode, followingUserId, recvNow, recvNowSeen, lastSyncRef,
              pausedTargetRef, meKnown, hint, received, handlers, lastSel, lastCmd>>

senderVars == <<isSharing, readyState, player, senderNow, nextPoll, hasSentInitialRef,
                lastBroadcastRef, lastPresencePingRef, last, pauseCooldownUntilRef, sent, opsLeft,
                inFlight>>

lobbyVars == <<liveMap, liveList, followers, roundTrip>>

backendVars == <<proxy, wsClients, rooms, directory, delivered, handled>>

vars == <<variant, clock, recvVars, senderVars, lobbyVars, backendVars>>

(***************************************************************************)
(* Bounds                                                                  *)
(***************************************************************************)
MaxEvents == 2      \* events of the followed sender handled in one run
MaxTicks == 1       \* clock steps in one run
MaxDevices == 2     \* length of a device list

POLL_MS == 2000        \* follow-based sender: the poll period
ROOM_POLL_MS == 1500   \* room-based sender: the poll period (its POLL_MS)

\* one clock step: the grid both poll periods fall on
Step == POLL_MS - ROOM_POLL_MS
\* Date.now() at the start of a run (any positive instant)
T0 == 200 * Step

Users == {"s1", "s2"}
\* the senders the lobby lists as live
LiveUsers == {"s1"}
Tracks == {"A", "B"}
\* the (track, position) pairs the senders report
Shapes == {<<"A", 5000>>, <<"B", 0>>}
NoUser == "none"
NoTrack == "none"

Max(a, b) == IF a >= b THEN a ELSE b
Abs(a) == IF a >= 0 THEN a ELSE 0 - a
\* JavaScript's `x || y` on a number: 0 is falsy
OrElse(x, y) == IF x = 0 THEN y ELSE x

(***************************************************************************)
(* Devices: [id, is_active, is_restricted]; id 0 models a null id.         *)
(***************************************************************************)
DeviceKinds == {[is_active |-> TRUE, is_restricted |-> FALSE],
                [is_active |-> FALSE, is_restricted |-> FALSE],
                [is_active |-> FALSE, is_restricted |-> TRUE]}

MkDevice(i, k) == [id |-> i, is_active |-> k.is_active, is_restricted |-> k.is_restricted]

\* every list of at most MaxDevices devices, ids 1, 2, ... by position
NumberedLists ==
    UNION {{[i \in 1..n |-> MkDevice(i, f[i])] : f \in [1..n -> DeviceKinds]} : n \in 0..MaxDevices}

\* lists whose selected device carries no id
NullIdLists == {<<MkDevice(0, [is_active |-> FALSE, is_restricted |-> TRUE])>>,
                <<MkDevice(0, [is_active |-> FALSE, is_restricted |-> FALSE])>>}

DeviceLists == NumberedLists \cup NullIdLists

NoDevice == [id |-> 0, is_active |-> FALSE, is_restricted |-> FALSE]

Elems(devices) == {devices[i] : i \in 1..Len(devices)}

\* Array.prototype.find over a predicate given as the set of matching elements
RECURSIVE FindFrom(_, _, _)
FindFrom(devices, i, Match) ==
    IF i > Len(devices) THEN <<>>
    ELSE IF devices[i] \in Match THEN <<devices[i]>>
    ELSE FindFrom(devices, i + 1, Match)

Find(devices, Match) == FindFrom(devices, 1, Match)

\* the mutation of SelectDevice: the first device, whatever its flags
SelectFirst(devices) == devices[1]

\* devices.find(d => d.is_active) || devices.find(d => !d.is_restricted) || devices[0]
SelectDevice(devices) ==
    LET act == Find(devices, {d \in Elems(devices) : d.is_active})
        unr == Find(devices, {d \in Elems(devices) : ~d.is_restricted})
    IN  IF act # <<>> THEN act[1]
        ELSE IF unr # <<>> THEN unr[1]
        ELSE devices[1]

(***************************************************************************)
(* Events and provider commands                                            *)
(***************************************************************************)
\* a track / pause (follow) or sync (room) message as the senders build it
MkEvent(u, t, q, p, ts, seek) ==
    [user |-> u, type |-> IF p THEN "track" ELSE "pause", trackId |-> t,
     progress_ms |-> q, is_playing |-> p, ts |-> ts, is_seek |-> seek]

\* the sender's clock reading an event arriving at `now` carries: one Step of
\* transport latency once the run is a Step old
SentAt(now) == IF now - Step >= T0 THEN now - Step ELSE now

FollowEvents(now) ==
    {MkEvent(u, x[1], x[2], p, SentAt(now), FALSE) : u \in Users, x \in Shapes, p \in BOOLEAN}

RoomEvents(now) ==
    {MkEvent(NoUser, x[1], x[2], p, SentAt(now), k) : x \in Shapes, p \in BOOLEAN, k \in BOOLEAN}

NoEvent == MkEvent(NoUser, NoTrack, 0, FALSE, 0, FALSE)

\* op: "pause" | "transfer" | "play" | "seek" | "resume" (a play without uris / position_ms)
\* ev: the handler that issued it; engaged: whether the client was still a receiver
\* of the event's sender when the request was made; seen: the number of events
\* received by then (filled in by Issue)
MkCmd(op, uri, pos, dev, h, engaged) ==
    [op |-> op, uri |-> uri, pos |-> pos, dev |-> dev, ev |-> h, engaged |-> engaged, seen |-> 0]

NoCmd == MkCmd("none", NoTrack, 0, 0, 0, FALSE)

\* the mutation of BackendPlay: a play request without uris and position_ms
BareResume(trackId, position_ms, h, engaged) == MkCmd("resume", NoTrack, 0, 0, h, engaged)

\* backendPlay({ uris: [`spotify:track:${trackId}`], position_ms })
BackendPlay(trackId, position_ms, h, engaged) == MkCmd("play", trackId, position_ms, 0, h, engaged)

\* transferToDevice(deviceId, autoPlay)
TransferToDevice(deviceId, h, engaged) == MkCmd("transfer", NoTrack, 0, deviceId, h, engaged)

\* backendPause()
BackendPause(h, engaged) == MkCmd("pause", NoTrack, 0, 0, h, engaged)

\* PUT /me/player/seek?position_ms=
SeekTo(position_ms, h, engaged) == MkCmd("seek", NoTrack, position_ms, 0, h, engaged)

\* Math.max(0, (leaderPositionMs || 0) + (now - (leaderSentAt || now)))
Desired(leaderPositionMs, leaderSentAt, now) ==
    Max(0, OrElse(leaderPositionMs, 0) + (now - OrElse(leaderSentAt, now)))

\* object spread: { ...prev, ...upd }
Merge(prev, upd) ==
    [k \in (DOMAIN prev) \cup (DOMAIN upd) |-> IF k \in DOMAIN upd THEN upd[k] ELSE prev[k]]

\* setRecvNow({ id, progress_ms, _leaderTs, is_playing: true })   (display fields left out)
RecvNowOfTrack(e, now) ==
    [id |-> e.trackId, progress_ms |-> OrElse(e.progress_ms, 0),
     leaderTs |-> OrElse(e.ts, now), is_playing |-> TRUE]

\* the mutation of RecvNowOfPause: the position is not overwritten
RecvNowOfPauseKeepPos(prev, e, now) ==
    Merge(IF prev = <<>> THEN [progress_ms |-> 0] ELSE prev[1],
          [id |-> e.trackId, leaderTs |-> OrElse(e.ts, now), is_playing |-> FALSE])

\* setRecvNow((prev) => ({ ...(prev || {}), id, progress_ms, _leaderTs, is_playing: false }))
RecvNowOfPause(prev, e, now) ==
    Merge(IF prev = <<>> THEN [id |-> e.trackId] ELSE prev[1],
          [id |-> e.trackId, progress_ms |-> OrElse(e.progress_ms, 0),
           leaderTs |-> OrElse(e.ts, now), is_playing |-> FALSE])

(***************************************************************************)
(* Receiver: the handler records                                           *)
(***************************************************************************)
\* pc: the await the handler is suspended at, or "done"
NewHandler(e, pc, desired) == [ev |-> e, pc |-> pc, desired |-> desired]

NoSel == [h |-> 0, devices |-> <<>>, device |-> NoDevice]

\* whether the client is still a receiver of the sender of handler h's event
Engaged(e) ==
    IF variant = "follow" THEN mode = "receiver" /\ followingUserId = e.user
    ELSE mode = "receiver"

Waiting(h, pc) == h \in 1..Len(handlers) /\ handlers[h].pc = pc

\* handler h issues command c and suspends at pc
Issue(hs, h, c, pc) ==
    /\ handlers' = [hs EXCEPT ![h].pc = pc]
    /\ lastCmd' = [c EXCEPT !.seen = Len(hs)]

\* handler h returns
Finish(hs, h) == [hs EXCEPT ![h] = NewHandler(NoEvent, "done", 0)]

\* the last two accepted events, oldest first
Remember(e) == IF Len(received) < 2 THEN Append(received, e) ELSE <<received[2], e>>

\* the device lists the overlapping runs draw from
CoreLists == {devices \in DeviceLists : Len(devices) <= 1 /\ \A i \in 1..Len(devices) : devices[i].id # 0}

(***************************************************************************)
(* Lobby of the follow-based client: presence directory and follow graph   *)
(* (src/frontend/src/App.js).  An entry's name is the name its user's      *)
(* messages carry, a function of the id, and is left out; lastTrack is     *)
(* kept as whether the entry holds one, its content only feeds the card.   *)
(***************************************************************************)
LIVE_WINDOW_MS == 15000   \* liveList: cutoff = Date.now() - 15000

Index(m, uid) == {i \in 1..Len(m) : m[i].id = uid}

Has(m, uid) == Index(m, uid) # {}

\* the mutation of Get: a blank entry in place of the stored one
GetBlank(m, uid) == [id |-> uid, since |-> 0, lastSeen |-> 0, lastTrack |-> FALSE]

Get(m, uid) == m[CHOOSE i \in Index(m, uid) : TRUE]

\* Map.prototype.set: an existing key keeps its place, a new one goes last
MapSet(m, entry) ==
    IF Has(m, entry.id) THEN [i \in 1..Len(m) |-> IF m[i].id = entry.id THEN entry ELSE m[i]]
    ELSE Append(m, entry)

\* Map.prototype.delete
MapDelete(m, uid) == SelectSeq(m, LAMBDA x : x.id # uid)

\* Array.prototype.sort((a, b) => b.lastSeen - a.lastSeen): stable, newest first
RECURSIVE SortByLastSeen(_)
SortByLastSeen(arr) ==
    IF arr = <<>> THEN <<>>
    ELSE LET rest == SortByLastSeen(Tail(arr))
             k == Cardinality({i \in 1..Len(rest) : rest[i].lastSeen > arr[1].lastSeen})
         IN  SubSeq(rest, 1, k) \o <<arr[1]>> \o SubSeq(rest, k + 1, Len(rest))

\* the useMemo body: filter on the cutoff, sort, as ids
LiveListOf(m, now) ==
    LET cutoff == now - LIVE_WINDOW_MS
        arr == SortByLastSeen(SelectSeq(m, LAMBDA x : OrElse(x.lastSeen, OrElse(x.since, 0)) > cutoff))
    IN  [i \in 1..Len(arr) |-> arr[i].id]

\* setLiveMap(m): the next render recomputes the memoised liveList
SetLiveMap(m) ==
    /\ liveMap' = m
    /\ liveList' = LiveListOf(m, clock)

Audience(fs, t) == IF t \in DOMAIN fs THEN fs[t] ELSE {}

\* follow: inner.set(follower); copy.set(target, inner)
ApplyFollow(fs, f, t) ==
    [x \in (DOMAIN fs) \cup {t} |-> IF x = t THEN Audience(fs, t) \cup {f} ELSE fs[x]]

\* the mutation of ApplyUnfollow: the whole audience of the target goes
ApplyUnfollowAll(fs, f, t) == [x \in (DOMAIN fs) \cup {t} |-> IF x = t THEN {} ELSE fs[x]]

\* unfollow: inner.delete(follower); copy.set(target, inner)
ApplyUnfollow(fs, f, t) ==
    [x \in (DOMAIN fs) \cup {t} |-> IF x = t THEN Audience(fs, t) \ {f} ELSE fs[x]]

\* a wrong cascade: every audience is dropped with the target's
DropEveryTarget(fs, uid) == [x \in {} |-> {}]

\* presence stop: fcopy.delete(uid)
DropTarget(fs, uid) == [x \in (DOMAIN fs) \ {uid} |-> fs[x]]

NoTrip == <<>>

\* the lobby of a client that has seen no message
LobbyEmpty ==
    /\ liveMap = <<>>
    /\ liveList = <<>>
    /\ followers = [x \in {} |-> {}]
    /\ roundTrip = NoTrip

\* the lobby half of the track / pause branch
LobbyTrackPause(e) ==
    LET at == OrElse(e.ts, clock)
        ex == IF Has(liveMap, e.user) THEN Get(liveMap, e.user)
              ELSE [id |-> e.user, since |-> at, lastSeen |-> at, lastTrack |-> FALSE]
    IN  SetLiveMap(MapSet(liveMap, [ex EXCEPT !.lastSeen = at, !.lastTrack = TRUE]))

\* ws.onmessage, presence branch
OnPresence(action, uid, ts) ==
    /\ variant = "follow"
    /\ LET at == OrElse(ts, clock) IN
       CASE action = "start" ->
                /\ SetLiveMap(MapSet(liveMap, [id |-> uid, since |-> at, lastSeen |-> at,
                                               lastTrack |-> IF Has(liveMap, uid)
                                                             THEN Get(liveMap, uid).lastTrack
                                                             ELSE FALSE]))
                /\ UNCHANGED <<followers, roundTrip>>
         [] action = "stop" ->
                /\ SetLiveMap(MapDelete(liveMap, uid))
                /\ followers' = DropTarget(followers, uid)
                /\ roundTrip' = <<[f |-> NoUser, t |-> uid, before |-> followers, done |-> FALSE]>>
         [] action = "ping" ->
                /\ SetLiveMap(IF Has(liveMap, uid)
                              THEN MapSet(liveMap, [Get(liveMap, uid) EXCEPT !.lastSeen = at])
                              ELSE liveMap)
                /\ UNCHANGED <<followers, roundTrip>>
    /\ UNCHANGED <<senderVars, variant, backendVars, clock, recvVars>>

(***************************************************************************)
(* Receiver, follow-based client (src/frontend/src/App.js)                 *)
(***************************************************************************)
roomRecvVars == <<recvNowSeen, lastSyncRef, pausedTargetRef, meKnown>>

\* "Mithören" on a live sender's card in the lobby
Mithoeren(u) ==
    /\ variant = "follow"
    /\ mode = "idle"
    /\ followingUserId' = u
    /\ mode' = "receiver"
    /\ hint' = ""
    /\ UNCHANGED <<senderVars, lobbyVars, variant, backendVars, clock, recvNow, roomRecvVars, received, handlers, lastSel, lastCmd>>

\* "Verlassen" in the receiver view
Verlassen ==
    /\ variant = "follow"
    /\ mode = "receiver"
    /\ mode' = "idle"
    /\ recvNow' = <<>>
    /\ followingUserId' = NoUser
    /\ UNCHANGED <<senderVars, lobbyVars, variant, backendVars, clock, roomRecvVars, hint, received, handlers, lastSel, lastCmd>>

\* a gate that lets every sender's events through to a receiver
AcceptsAnySender(e) == mode = "receiver" /\ followingUserId # NoUser

\* mode === "receiver" && followingUserId && user?.id === followingUserId
Accepts(e) == mode = "receiver" /\ followingUserId # NoUser /\ e.user = followingUserId

\* ws.onmessage, track / pause branch, up to its first await
OnTrackPause(e) ==
    /\ variant = "follow"
    /\ LobbyTrackPause(e)
    /\ IF Accepts(e)
       THEN /\ Len(handlers) < MaxEvents
            /\ LET h == Len(handlers) + 1 IN
               IF e.type = "pause" \/ e.is_playing = FALSE
               THEN /\ Issue(Append(handlers, NewHandler(e, "pause", 0)), h,
                             BackendPause(h, Engaged(e)), "pause")
                    /\ UNCHANGED recvNow
               ELSE /\ recvNow' = <<RecvNowOfTrack(e, clock)>>
                    /\ handlers' = Append(handlers, NewHandler(e, "devices", 0))
                    /\ UNCHANGED lastCmd
            /\ received' = Remember(e)
       ELSE UNCHANGED <<recvNow, received, handlers, lastCmd>>
    /\ UNCHANGED <<senderVars, followers, roundTrip, variant, backendVars, clock, mode, followingUserId,
                   roomRecvVars, hint, lastSel>>

\* backendPause() settled (its errors are swallowed); the state is written after it
PauseSettled(h) ==
    /\ variant = "follow"
    /\ Waiting(h, "pause")
    /\ recvNow' = <<RecvNowOfPause(recvNow, handlers[h].ev, clock)>>
    /\ handlers' = Finish(handlers, h)
    /\ UNCHANGED <<senderVars, lobbyVars, variant, backendVars, clock, mode, followingUserId, roomRecvVars, hint, received, lastSel,
                   lastCmd>>

\* ensurePlaybackAndPlay: getDevices() resolved (a non-ok answer is the empty list)
DevicesResolved(h, devices) ==
    /\ variant = "follow"
    /\ Waiting(h, "devices")
    /\ LET e == handlers[h].ev IN
       IF Len(devices) = 0
       THEN /\ hint' = "no_device"
            /\ handlers' = Finish(handlers, h)
            /\ lastSel' = [h |-> h, devices |-> devices, device |-> NoDevice]
            /\ UNCHANGED lastCmd
       ELSE LET device == SelectDevice(devices) IN
            /\ lastSel' = [h |-> h, devices |-> devices, device |-> device]
            /\ IF device.id = 0
               THEN /\ hint' = "no_suitable_device"
                    /\ handlers' = Finish(handlers, h)
                    /\ UNCHANGED lastCmd
               ELSE IF ~device.is_active
               THEN /\ Issue(handlers, h, TransferToDevice(device.id, h, Engaged(e)), "transfer")
                    /\ UNCHANGED hint
               ELSE /\ Issue(handlers, h,
                             BackendPlay(e.trackId, Desired(OrElse(e.progress_ms, 0), e.ts, clock),
                                         h, Engaged(e)), "play")
                    /\ UNCHANGED hint
    /\ UNCHANGED <<senderVars, lobbyVars, variant, backendVars, clock, mode, followingUserId, recvNow, roomRecvVars, received>>

\* transferToDevice resolved and the 250 ms pause passed: backendPlay goes out
TransferResolved(h) ==
    /\ variant = "follow"
    /\ Waiting(h, "transfer")
    /\ LET e == handlers[h].ev IN
       Issue(handlers, h, BackendPlay(e.trackId, Desired(OrElse(e.progress_ms, 0), e.ts, clock),
                                      h, Engaged(e)), "play")
    /\ UNCHANGED <<senderVars, lobbyVars, variant, backendVars, clock, mode, followingUserId, recvNow, roomRecvVars, hint, received,
                   lastSel>>

\* backendPlay resolved: setHint("")
PlayResolved(h) ==
    /\ variant = "follow"
    /\ Waiting(h, "play")
    /\ hint' = ""
    /\ handlers' = Finish(handlers, h)
    /\ UNCHANGED <<senderVars, lobbyVars, variant, backendVars, clock, received, mode, followingUserId, recvNow, roomRecvVars, lastSel, lastCmd>>

\* getDevices / transferToDevice / backendPlay threw: the catch sets the hint
PlaybackFailed(h) ==
    /\ variant = "follow"
    /\ h \in 1..Len(handlers)
    /\ handlers[h].pc \in {"devices", "transfer", "play"}
    /\ hint' = "play_error"
    /\ handlers' = Finish(handlers, h)
    /\ UNCHANGED <<senderVars, lobbyVars, variant, backendVars, clock, received, mode, followingUserId, recvNow, roomRecvVars, lastSel, lastCmd>>

\* time passes
Tick ==
    /\ clock < T0 + MaxTicks * Step
    /\ clock' = clock + Step
    /\ UNCHANGED <<senderVars, lobbyVars, variant, backendVars, recvVars>>

(***************************************************************************)
(* Receiver, room-based client (src/Poll/Thresholds)                       *)
(* The watchdog's lastSyncTsRef and the joinInfo banner are left out: no   *)
(* playback decision reads them.                                           *)
(***************************************************************************)
\* "Mitspielen": setRole("receiver"); the WebSocket effect runs again and its
\* onmessage closure captures the recvNow of that render
RoomJoin ==
    /\ variant = "room"
    /\ mode = "idle"
    /\ mode' = "receiver"
    /\ recvNowSeen' = recvNow
    /\ hint' = "joined"
    /\ UNCHANGED <<senderVars, lobbyVars, variant, backendVars, clock, followingUserId, recvNow, lastSyncRef, pausedTargetRef,
                   meKnown, received, handlers, lastSel, lastCmd>>

\* "Rolle zurücksetzen": the state is cleared, the refs are not
RoomReset ==
    /\ variant = "room"
    /\ mode = "receiver"
    /\ mode' = "idle"
    /\ recvNow' = <<>>
    /\ recvNowSeen' = <<>>
    /\ hint' = ""
    /\ UNCHANGED <<senderVars, lobbyVars, variant, backendVars, clock, followingUserId, lastSyncRef, pausedTargetRef,
                   meKnown, received, handlers, lastSel, lastCmd>>

\* /whoami answered: setMe; the WebSocket effect (deps token, me, roomId, role,
\* isSharing) runs again and the new closure captures the current recvNow
RoomWhoami ==
    /\ variant = "room"
    /\ ~meKnown
    /\ meKnown' = TRUE
    /\ recvNowSeen' = recvNow
    /\ UNCHANGED <<senderVars, lobbyVars, variant, backendVars, clock, mode, followingUserId, recvNow, lastSyncRef,
                   pausedTargetRef, hint, received, handlers, lastSel, lastCmd>>

\* ws.onmessage for a sync / track message, up to applyRemoteEvent's first await
RoomOnSync(e) ==
    /\ variant = "room"
    /\ IF mode = "receiver"
       THEN /\ Len(handlers) < MaxEvents
            /\ LET desiredPos == Desired(e.progress_ms, e.ts, clock) IN
               /\ lastSyncRef' = <<[trackId |-> e.trackId, basePos |-> OrElse(e.progress_ms, 0),
                                    sentAt |-> OrElse(e.ts, clock), is_playing |-> e.is_playing]>>
               /\ recvNow' = <<[id |-> e.trackId, progress_ms |-> desiredPos,
                                is_playing |-> e.is_playing]>>
               /\ handlers' = Append(handlers, NewHandler(e, "devices", desiredPos))
               /\ received' = Remember(e)
       ELSE UNCHANGED <<lastSyncRef, recvNow, received, handlers>>
    /\ UNCHANGED <<senderVars, lobbyVars, variant, backendVars, clock, mode, followingUserId, recvNowSeen, pausedTargetRef,
                   meKnown, hint, lastSel, lastCmd>>

\* applyRemoteEvent after the device stage: pause, resume, play, seek or nothing
RoomContinue(h) ==
    LET e == handlers[h].ev
        desiredPosMs == handlers[h].desired
    IN  IF ~e.is_playing
        THEN /\ Issue(handlers, h, BackendPause(h, Engaged(e)), "pause")
             /\ UNCHANGED <<pausedTargetRef, hint>>
        ELSE IF pausedTargetRef # <<>>
        THEN /\ Issue(handlers, h, BackendPlay(pausedTargetRef[1].trackId,
                                               pausedTargetRef[1].desiredPosMs, h, Engaged(e)),
                      "play")
             /\ pausedTargetRef' = <<>>
             /\ UNCHANGED hint
        ELSE IF recvNowSeen = <<>> \/ recvNowSeen[1].id # e.trackId
        THEN /\ Issue(handlers, h, BackendPlay(e.trackId, Max(0, desiredPosMs), h, Engaged(e)),
                      "play")
             /\ UNCHANGED <<pausedTargetRef, hint>>
        ELSE IF e.is_seek
        THEN /\ Issue(handlers, h, SeekTo(Max(0, desiredPosMs), h, Engaged(e)), "seek")
             /\ UNCHANGED <<pausedTargetRef, hint>>
        ELSE /\ hint' = ""
             /\ handlers' = Finish(handlers, h)
             /\ UNCHANGED <<pausedTargetRef, lastCmd>>

\* the devices request answered (a non-ok answer is the empty list)
RoomDevicesResolved(h, devices) ==
    /\ variant = "room"
    /\ Waiting(h, "devices")
    /\ LET e == handlers[h].ev IN
       IF Len(devices) = 0
       THEN /\ hint' = "no_device"
            /\ handlers' = Finish(handlers, h)
            /\ lastSel' = [h |-> h, devices |-> devices, device |-> NoDevice]
            /\ UNCHANGED <<pausedTargetRef, lastCmd>>
       ELSE LET device == SelectDevice(devices) IN
            /\ lastSel' = [h |-> h, devices |-> devices, device |-> device]
            /\ IF ~device.is_active
               THEN /\ Issue(handlers, h, TransferToDevice(device.id, h, Engaged(e)), "transfer")
                    /\ UNCHANGED <<pausedTargetRef, hint>>
               ELSE RoomContinue(h)
    /\ UNCHANGED <<senderVars, lobbyVars, variant, backendVars, clock, mode, followingUserId, recvNow, recvNowSeen, lastSyncRef,
                   meKnown, received>>

\* the transfer request answered (its status is not read) and 250 ms passed
RoomTransferResolved(h) ==
    /\ variant = "room"
    /\ Waiting(h, "transfer")
    /\ RoomContinue(h)
    /\ UNCHANGED <<senderVars, lobbyVars, variant, backendVars, clock, mode, followingUserId, recvNow, recvNowSeen, lastSyncRef,
                   meKnown, received, lastSel>>

\* the pause request answered: the pause target is kept for the resume
RoomPauseResolved(h) ==
    /\ variant = "room"
    /\ Waiting(h, "pause")
    /\ pausedTargetRef' = <<[trackId |-> handlers[h].ev.trackId,
                             desiredPosMs |-> handlers[h].desired]>>
    /\ recvNow' = IF recvNow = <<>> THEN recvNow ELSE <<[recvNow[1] EXCEPT !.is_playing = FALSE]>>
    /\ hint' = ""
    /\ handlers' = Finish(handlers, h)
    /\ UNCHANGED <<senderVars, lobbyVars, variant, backendVars, clock, received, mode, followingUserId, recvNowSeen, lastSyncRef, meKnown,
                   lastSel, lastCmd>>

\* the play request answered
RoomPlayResolved(h) ==
    /\ variant = "room"
    /\ Waiting(h, "play")
    /\ hint' = ""
    /\ handlers' = Finish(handlers, h)
    /\ UNCHANGED <<senderVars, lobbyVars, variant, backendVars, clock, received, mode, followingUserId, recvNow, roomRecvVars, lastSel, lastCmd>>

\* the seek request answered
RoomSeekResolved(h) ==
    /\ variant = "room"
    /\ Waiting(h, "seek")
    /\ recvNow' = IF recvNow = <<>> THEN recvNow
                  ELSE <<[recvNow[1] EXCEPT !.progress_ms = handlers[h].desired]>>
    /\ hint' = ""
    /\ handlers' = Finish(handlers, h)
    /\ UNCHANGED <<senderVars, lobbyVars, variant, backendVars, clock, received, mode, followingUserId, roomRecvVars, lastSel, lastCmd>>

\* a fetch of applyRemoteEvent threw: the catch sets the hint
RoomSyncFailed(h) ==
    /\ variant = "room"
    /\ h \in 1..Len(handlers)
    /\ handlers[h].pc \in {"devices", "transfer", "pause", "play", "seek"}
    /\ hint' = "sync_error"
    /\ handlers' = Finish(handlers, h)
    /\ UNCHANGED <<senderVars, lobbyVars, variant, backendVars, clock, received, mode, followingUserId, recvNow, roomRecvVars, lastSel, lastCmd>>

(***************************************************************************)
(* Sender: the player it polls, the messages it sends                      *)
(***************************************************************************)
DRIFT_MS == 2000            \* follow-based sender: drift that counts as a seek
PING_MS == 12000            \* follow-based sender: presence ping period
SEEK_EVENT_MS == 3000       \* room-based sender: drift that counts as a seek
PAUSE_COOLDOWN_MS == 1500   \* room-based sender: pauseCooldownUntilRef = now + 1500

MaxSteps == 4    \* clock steps in a sender run
MaxOps == 1      \* actions of the user (on the player, stopping) in a sender run

\* what the player plays when a run starts, and how far the user seeks
StartShapes == {<<"A", 10000>>, <<"B", 0>>}
Jumps == {0 - 3000, 500, 2000, 4000}

\* the user running the client
Me == "me"

\* the mutation of wsOpen: the socket's state is not looked at
wsAssumedOpen == TRUE

\* ws.current?.readyState === WebSocket.OPEN
wsOpen == readyState = "OPEN"

MkPlayer(t, q, p) == [trackId |-> t, progress_ms |-> q, is_playing |-> p]

\* useRef({ trackId: null, is_playing: null, progress_ms: 0, sentAt: 0 }); the null
\* is_playing is never compared: the trackId test comes first and differs
NoBroadcast == [trackId |-> NoTrack, is_playing |-> FALSE, progress_ms |-> 0, sentAt |-> 0]

\* a playback message on the wire.  n alternates between 0 and 1 from one
\* message to the next; why is the branch
\* that sent it; playerAt is the position the player was really at when it left
MkMsg(n, why, t, q, p, ts, seek, playerAt) ==
    [n |-> n, why |-> why, trackId |-> t, progress_ms |-> q, is_playing |-> p, ts |-> ts,
     is_seek |-> seek, playerAt |-> playerAt]

NoMsg == MkMsg(0, "none", NoTrack, 0, FALSE, 0, FALSE, 0)

PlayerAt == IF player = <<>> THEN 0 ELSE player[1].progress_ms

\* the mutation of Expected: the time since the last broadcast is not added
ExpectedFrozen(prev, now) == prev.progress_ms

\* prev.is_playing ? prev.progress_ms + (now - (prev.sentAt || now)) : prev.progress_ms
Expected(prev, now) ==
    IF prev.is_playing THEN prev.progress_ms + (now - OrElse(prev.sentAt, now))
    ELSE prev.progress_ms

\* the follow-based tick's decision: the branch that sets shouldBroadcast, or "none"
ShouldBroadcast(prev, curr, now) ==
    IF prev.trackId # curr.trackId THEN "track"
    ELSE IF prev.is_playing # curr.is_playing THEN "state"
    ELSE IF Abs(curr.progress_ms - Expected(prev, now)) > DRIFT_MS THEN "seek"
    ELSE "none"

\* the room-based tick's decision: the branch that sets shouldSend, or "none"
ShouldSend(l, curr, now) ==
    IF l = <<>> THEN "first"
    ELSE IF curr.trackId # l[1].trackId THEN "track"
    ELSE IF curr.is_playing # l[1].is_playing THEN "state"
    ELSE IF /\ now > pauseCooldownUntilRef
            /\ Abs(curr.progress_ms - (l[1].basePos + (now - l[1].baseTs))) > SEEK_EVENT_MS
         THEN "seek"
    ELSE "none"

\* lastBroadcastRef.current = { trackId, is_playing, progress_ms, sentAt: Date.now() }
Broadcast(t, q, p, now) == [trackId |-> t, is_playing |-> p, progress_ms |-> q, sentAt |-> now]

\* buildSenderSnapshot(me, senderNow) for a non-null senderNow
BuildSenderSnapshot(sn, now) ==
    MkMsg(1 - sent.n, "snapshot", sn.id, OrElse(sn.progress_ms, 0), sn.is_playing, now, FALSE,
          PlayerAt)

\* a sender that answers with the state it broadcast last, not the one it knows
SendLastBroadcast ==
    /\ sent' = MkMsg(1 - sent.n, "snapshot", lastBroadcastRef.trackId,
                     lastBroadcastRef.progress_ms, lastBroadcastRef.is_playing, clock, FALSE,
                     PlayerAt)
    /\ lastBroadcastRef' = [lastBroadcastRef EXCEPT !.sentAt = clock]

\* the sender half of the req_snapshot and follow branches: the snapshot goes out
SendSnapshot ==
    LET snap == BuildSenderSnapshot(senderNow[1], clock) IN
    /\ sent' = snap
    /\ lastBroadcastRef' = Broadcast(snap.trackId, snap.progress_ms, snap.is_playing, clock)

\* the receiver's variables but the hint
recvQuiet == <<mode, followingUserId, recvNow, recvNowSeen, lastSyncRef, pausedTargetRef,
               meKnown, received, handlers, lastSel, lastCmd>>

\* the sender of a client that is not sharing
SenderIdle ==
    /\ isSharing = FALSE
    /\ readyState = "OPEN"
    /\ player = <<>>
    /\ senderNow = <<>>
    /\ nextPoll = 0
    /\ hasSentInitialRef = FALSE
    /\ lastBroadcastRef = NoBroadcast
    /\ lastPresencePingRef = 0
    /\ last = <<>>
    /\ pauseCooldownUntilRef = 0
    /\ sent = NoMsg
    /\ opsLeft = 0
    /\ inFlight = FALSE

\* "Live teilen starten" / "Selbst live gehen": the poll effect starts and calls
\* tick() at once; the WebSocket effect (deps mode / role, isSharing) runs again
\* and opens a new socket
StartSharing ==
    /\ ~isSharing
    /\ mode = "idle"
    /\ isSharing' = TRUE
    /\ hasSentInitialRef' = FALSE
    /\ lastPresencePingRef' = IF variant = "follow" THEN clock ELSE lastPresencePingRef
    /\ last' = <<>>
    /\ nextPoll' = clock
    /\ readyState' = "CONNECTING"
    /\ hint' = "sharing"
    /\ UNCHANGED <<player, senderNow, lastBroadcastRef, pauseCooldownUntilRef, sent, opsLeft,
                   lobbyVars, variant, inFlight, backendVars, clock, recvQuiet>>

\* "Teilen stoppen" / "Stoppen": the poll interval is cleared, the socket replaced
StopSharing ==
    /\ isSharing
    /\ opsLeft > 0
    /\ opsLeft' = opsLeft - 1
    /\ isSharing' = FALSE
    /\ hasSentInitialRef' = FALSE
    /\ readyState' = "CONNECTING"
    /\ UNCHANGED <<player, senderNow, nextPoll, lastBroadcastRef, lastPresencePingRef, last,
                   pauseCooldownUntilRef, sent, lobbyVars, variant, inFlight, backendVars, clock, recvVars>>

\* ws.onopen
WsOpens ==
    /\ readyState = "CONNECTING"
    /\ readyState' = "OPEN"
    /\ UNCHANGED <<isSharing, player, senderNow, nextPoll, hasSentInitialRef, lastBroadcastRef,
                   lastPresencePingRef, last, pauseCooldownUntilRef, sent, opsLeft, lobbyVars,
                   variant, inFlight, backendVars, clock, recvVars>>

\* what the sender leaves alone when only the player changes
playerRest == <<isSharing, readyState, senderNow, nextPoll, hasSentInitialRef, lastBroadcastRef,
                lastPresencePingRef, last, pauseCooldownUntilRef, sent, lobbyVars, variant, inFlight, backendVars,
                recvVars>>

\* setInterval(tick, POLL_MS)
PollPeriod == IF variant = "follow" THEN POLL_MS ELSE ROOM_POLL_MS

\* a sender clock step: half a poll period
HalfPoll == PollPeriod \div 2

\* time passes while the sender shares (what happens before it shares is the
\* state it starts from): a playing player advances; a due poll runs first
SenderTick(steps) ==
    /\ clock < T0 + steps * HalfPoll
    /\ isSharing
    /\ clock < nextPoll
    /\ clock' = clock + HalfPoll
    /\ player' = IF player # <<>> /\ player[1].is_playing
                 THEN <<[player[1] EXCEPT !.progress_ms = @ + HalfPoll]>>
                 ELSE player
    /\ UNCHANGED <<playerRest, opsLeft>>

\* the user on the Spotify player: seek, play / pause, next track, stop
PlayerSeek(j) ==
    /\ opsLeft > 0 /\ player # <<>>
    /\ player' = <<[player[1] EXCEPT !.progress_ms = Max(0, @ + j)]>>
    /\ opsLeft' = opsLeft - 1
    /\ UNCHANGED <<playerRest, clock>>

PlayerToggle ==
    /\ opsLeft > 0 /\ player # <<>>
    /\ player' = <<[player[1] EXCEPT !.is_playing = ~@]>>
    /\ opsLeft' = opsLeft - 1
    /\ UNCHANGED <<playerRest, clock>>

PlayerNext ==
    /\ opsLeft > 0 /\ player # <<>>
    /\ player' = <<MkPlayer(CHOOSE t \in Tracks : t # player[1].trackId, 0, TRUE)>>
    /\ opsLeft' = opsLeft - 1
    /\ UNCHANGED <<playerRest, clock>>

PlayerStop ==
    /\ opsLeft > 0 /\ player # <<>>
    /\ player' = <<>>
    /\ opsLeft' = opsLeft - 1
    /\ UNCHANGED <<playerRest, clock>>

\* setSenderNow({ id, progress_ms, is_playing })   (display fields left out)
SenderNowOf(curr) ==
    [id |-> curr.trackId, progress_ms |-> OrElse(curr.progress_ms, 0), is_playing |-> curr.is_playing]

\* the message a tick sends for its observation
TickMsg(why, curr, now) ==
    MkMsg(1 - sent.n, why, curr.trackId, OrElse(curr.progress_ms, 0), curr.is_playing, now,
          why = "seek" /\ variant = "room", PlayerAt)

\* the follow-based tick from the answer of /currently-playing on: nothing in
\* it reads mode or isSharing.  The WebSocket effect depends on senderNow's id,
\* is_playing and progress_ms: when they change, the render after the tick
\* replaces the socket.
TickAnswered ==
    /\ lastPresencePingRef' = IF wsOpen /\ clock - lastPresencePingRef > PING_MS
                              THEN clock ELSE lastPresencePingRef
    /\ IF player = <<>>
       THEN /\ senderNow' = <<>>
            /\ hint' = "no_item"
            /\ UNCHANGED <<hasSentInitialRef, lastBroadcastRef, sent>>
       ELSE LET curr == player[1]
                why == ShouldBroadcast(lastBroadcastRef, curr, clock)
            IN  /\ senderNow' = <<SenderNowOf(curr)>>
                /\ hint' = IF curr.is_playing THEN "" ELSE "paused"
                /\ IF ~hasSentInitialRef /\ wsOpen
                   THEN /\ sent' = TickMsg("initial", curr, clock)
                        /\ lastBroadcastRef' =
                               Broadcast(curr.trackId, curr.progress_ms, curr.is_playing, clock)
                        /\ hasSentInitialRef' = TRUE
                   ELSE IF why # "none" /\ wsOpen
                   THEN /\ sent' = TickMsg(why, curr, clock)
                        /\ lastBroadcastRef' =
                               Broadcast(curr.trackId, curr.progress_ms, curr.is_playing, clock)
                        /\ UNCHANGED hasSentInitialRef
                   ELSE UNCHANGED <<hasSentInitialRef, lastBroadcastRef, sent>>
    /\ readyState' = IF senderNow' = senderNow THEN readyState ELSE "CONNECTING"
    /\ UNCHANGED <<isSharing, player, last, pauseCooldownUntilRef, opsLeft, lobbyVars, variant,
                   backendVars, clock, recvQuiet>>

\* a follow-based tick whose /currently-playing request is answered at once
Poll ==
    /\ variant = "follow"
    /\ isSharing
    /\ clock = nextPoll
    /\ ~inFlight
    /\ nextPoll' = clock + PollPeriod
    /\ TickAnswered
    /\ UNCHANGED inFlight

\* the interval fires: tick() sends its /currently-playing request and waits
TickStarts ==
    /\ variant = "follow"
    /\ isSharing
    /\ clock = nextPoll
    /\ ~inFlight
    /\ inFlight' = TRUE
    /\ nextPoll' = clock + PollPeriod
    /\ UNCHANGED <<isSharing, readyState, player, senderNow, hasSentInitialRef, lastBroadcastRef,
                   lastPresencePingRef, last, pauseCooldownUntilRef, sent, opsLeft, lobbyVars,
                   variant, backendVars, clock, recvVars>>

\* the answer of a waiting tick arrives, whatever the user did meanwhile
TickResolves ==
    /\ variant = "follow"
    /\ inFlight
    /\ inFlight' = FALSE
    /\ TickAnswered
    /\ UNCHANGED nextPoll

\* the room-based tick, from the answer of /currently-playing on
RoomPoll ==
    /\ variant = "room"
    /\ isSharing
    /\ clock = nextPoll
    /\ nextPoll' = clock + PollPeriod
    /\ IF player = <<>>
       THEN /\ hint' = "no_item"
            /\ UNCHANGED <<senderNow, last, pauseCooldownUntilRef, sent>>
       ELSE LET curr == player[1]
                why == ShouldSend(last, curr, clock)
                kept == <<[trackId |-> curr.trackId, is_playing |-> curr.is_playing,
                           basePos |-> curr.progress_ms, baseTs |-> clock]>>
            IN  /\ senderNow' = <<SenderNowOf(curr)>>
                /\ hint' = ""
                /\ pauseCooldownUntilRef' = IF why = "state" /\ ~curr.is_playing
                                            THEN clock + PAUSE_COOLDOWN_MS
                                            ELSE pauseCooldownUntilRef
                /\ IF why # "none" /\ wsOpen
                   THEN /\ sent' = TickMsg(why, curr, clock)
                        /\ last' = kept
                   ELSE IF last = <<>>
                   THEN /\ last' = kept
                        /\ UNCHANGED sent
                   ELSE UNCHANGED <<last, sent>>
    /\ UNCHANGED <<isSharing, readyState, player, hasSentInitialRef, lastBroadcastRef,
                   lastPresencePingRef, opsLeft, lobbyVars, variant, inFlight, backendVars, clock, recvQuiet>>

\* a catch that also ends the sharing
PollFailedStops ==
    /\ isSharing
    /\ clock = nextPoll
    /\ nextPoll' = clock + PollPeriod
    /\ hint' = "fetch_error"
    /\ isSharing' = FALSE
    /\ UNCHANGED <<readyState, player, senderNow, hasSentInitialRef, lastBroadcastRef,
                   lastPresencePingRef, last, pauseCooldownUntilRef, sent, opsLeft, lobbyVars,
                   variant, inFlight, backendVars, clock, recvQuiet>>

\* the fetch of a tick threw: the catch sets the hint
PollFailed ==
    /\ isSharing
    /\ clock = nextPoll
    /\ nextPoll' = clock + PollPeriod
    /\ hint' = "fetch_error"
    /\ UNCHANGED <<isSharing, readyState, player, senderNow, hasSentInitialRef, lastBroadcastRef,
                   lastPresencePingRef, last, pauseCooldownUntilRef, sent, opsLeft, lobbyVars,
                   variant, inFlight, backendVars, clock, recvQuiet>>

\* a follow-based tick whose request is answered with an error body, a JSON
\* text without a track, although the player has one: the heartbeat runs, then
\* the branch of !data?.track?.id
PollError ==
    /\ variant = "follow"
    /\ isSharing
    /\ clock = nextPoll
    /\ ~inFlight
    /\ player # <<>>
    /\ nextPoll' = clock + PollPeriod
    /\ lastPresencePingRef' = IF wsOpen /\ clock - lastPresencePingRef > PING_MS
                              THEN clock ELSE lastPresencePingRef
    /\ senderNow' = <<>>
    /\ hint' = "no_item"
    /\ readyState' = IF senderNow' = senderNow THEN readyState ELSE "CONNECTING"
    /\ UNCHANGED <<isSharing, player, hasSentInitialRef, lastBroadcastRef, sent, last,
                   pauseCooldownUntilRef, opsLeft, lobbyVars, variant, inFlight, backendVars,
                   clock, recvQuiet>>

\* ws.onmessage, req_snapshot branch (follow-based client)
OnReqSnapshot(targetUserId) ==
    /\ variant = "follow"
    /\ wsOpen
    /\ IF isSharing /\ targetUserId = Me /\ senderNow # <<>>
       THEN SendSnapshot
       ELSE UNCHANGED <<sent, lastBroadcastRef>>
    /\ UNCHANGED <<isSharing, readyState, player, senderNow, nextPoll, hasSentInitialRef,
                   lastPresencePingRef, last, pauseCooldownUntilRef, opsLeft, lobbyVars, variant, inFlight, backendVars,
                   clock, recvVars>>

\* ws.onmessage, snapshot_request branch (room-based client): the sender fetches
\* /currently-playing and sends what the player plays now; `last` is not touched
RoomOnSnapshotRequest ==
    /\ variant = "room"
    /\ wsOpen
    /\ isSharing
    /\ sent' = IF player # <<>>
               THEN MkMsg(1 - sent.n, "snapshot", player[1].trackId,
                          OrElse(player[1].progress_ms, 0), player[1].is_playing, clock, FALSE,
                          PlayerAt)
               ELSE sent
    /\ UNCHANGED <<isSharing, readyState, player, senderNow, nextPoll, hasSentInitialRef,
                   lastBroadcastRef, lastPresencePingRef, last, pauseCooldownUntilRef, opsLeft,
                   lobbyVars, variant, inFlight, backendVars, clock, recvVars>>

\* ws.onmessage, follow branch: the graph, then the snapshot of a followed sender
\* (lastBroadcastRef is written whether or not the socket took the message)
OnFollow(f, t) ==
    /\ variant = "follow"
    /\ followers' = ApplyFollow(followers, f, t)
    /\ roundTrip' = <<[f |-> f, t |-> t, before |-> followers, done |-> FALSE]>>
    /\ IF isSharing /\ t = Me /\ senderNow # <<>>
       THEN LET snap == BuildSenderSnapshot(senderNow[1], clock) IN
            /\ sent' = IF wsOpen THEN snap ELSE sent
            /\ lastBroadcastRef' = Broadcast(snap.trackId, snap.progress_ms, snap.is_playing, clock)
       ELSE UNCHANGED <<sent, lastBroadcastRef>>
    /\ UNCHANGED <<isSharing, readyState, player, senderNow, nextPoll, hasSentInitialRef,
                   lastPresencePingRef, last, pauseCooldownUntilRef, opsLeft, liveMap, liveList,
                   variant, inFlight, backendVars, clock, recvVars>>

\* ws.onmessage, unfollow branch
OnUnfollow(f, t) ==
    /\ variant = "follow"
    /\ followers' = ApplyUnfollow(followers, f, t)
    /\ roundTrip' = IF /\ roundTrip # NoTrip
                       /\ ~roundTrip[1].done
                       /\ roundTrip[1].f = f
                       /\ roundTrip[1].t = t
                    THEN <<[roundTrip[1] EXCEPT !.done = TRUE]>>
                    ELSE NoTrip
    /\ UNCHANGED <<senderVars, liveMap, liveList, variant, backendVars, clock, recvVars>>

(***************************************************************************)
(* Backend                                                                 *)
(***************************************************************************)
\* the backend before any request or connection
BackendIdle ==
    /\ proxy = <<>>
    /\ wsClients = <<>>
    /\ rooms = <<>>
    /\ directory = <<>>
    /\ delivered = <<>>
    /\ handled = <<>>

(***************************************************************************)
(* Backend: the routes that proxy Spotify (src/unnamed/part_001).  A       *)
(* refresh token is a number: 0 = no sp_rt cookie, each rotation adds one. *)
(***************************************************************************)
Routes == {"whoami", "currently-playing", "devices", "transfer", "play", "pause"}

\* a request: its route, its Authorization header in words, its cookies
Requests ==
    [route : Routes, authorization : {<<>>, <<"Bearer", "at">>, <<"Basic", "at">>},
     sp_at : BOOLEAN, sp_rt : {0, 1}]

\* Spotify's answers to an API call: status, whether a body came, Retry-After (0 = none)
ProviderAnswers ==
    {a \in [status : {200, 204, 401, 429}, data : BOOLEAN, retryAfter : {0, 5}] :
        a.retryAfter # 0 => a.status = 429}

\* Spotify's answers to a refresh-token exchange (expires_in 0 = not given)
RefreshAnswers ==
    {a \in [status : {200, 400}, expires_in : {0, 20, 3600}, rotated : BOOLEAN] :
        a.status # 200 => (a.expires_in = 0 /\ ~a.rotated)}

\* a wrong reading of the credentials: the sp_at cookie is taken as always there
AccessTokenAssumed(request) ==
    <<"sp_at">>

\* (req.headers.authorization || "").replace(/^Bearer\s+/i, "") || req.cookies.sp_at
AccessTokenOf(request) ==
    LET h == request.authorization
        stripped == IF Len(h) > 1 /\ h[1] = "Bearer" THEN Tail(h) ELSE h
    IN  IF stripped # <<>> THEN stripped
        ELSE IF request.sp_at THEN <<"sp_at">> ELSE <<>>

\* a wrong store: the refresh token is written back whether or not it was rotated
StoredWithRefresh(a, presented) ==
    <<[name |-> "sp_at", maxAge |-> (OrElse(a.expires_in, 3600) - 30) * 1000],
      [name |-> "sp_rt", token |-> presented + 1]>>

\* the cookies a successful exchange stores: sp_at for (expires_in - 30) s, and
\* sp_rt when the answer rotates the refresh token presented
StoredBy(a, presented) ==
    <<[name |-> "sp_at", maxAge |-> (OrElse(a.expires_in, 3600) - 30) * 1000]>>
        \o (IF a.rotated THEN <<[name |-> "sp_rt", token |-> presented + 1]>> ELSE <<>>)

\* what a route answers once the provider's answer r is final
Reply(route, r) ==
    IF route \in {"whoami", "currently-playing"} /\ r.status = 429
    THEN [status |-> 429, body |-> "rate_limited", retryAfter |-> OrElse(r.retryAfter, 1)]
    ELSE IF route = "whoami"
    THEN [status |-> r.status, body |-> IF r.status >= 400 THEN "spotify_error" ELSE "profile",
          retryAfter |-> 0]
    ELSE IF route = "currently-playing"
    THEN IF r.status = 204 \/ ~r.data THEN [status |-> 200, body |-> "no_item", retryAfter |-> 0]
         ELSE IF r.status = 200 THEN [status |-> 200, body |-> "playing", retryAfter |-> 0]
         ELSE [status |-> r.status, body |-> "spotify_error", retryAfter |-> 0]
    ELSE [status |-> r.status, body |-> IF r.data THEN "provider_data" ELSE "", retryAfter |-> 0]

\* a request arrives: withValidAccessToken up to its first await, then the API call
Arrive(request) ==
    /\ proxy = <<>>
    /\ LET token == AccessTokenOf(request)
           px == [request |-> request, accessToken |-> token, refreshes |-> <<>>,
                  exchanges |-> <<>>, apiCalls |-> 0, answers |-> <<>>, cookies |-> <<>>, response |-> <<>>]
       IN  proxy' =
             IF token = <<>> /\ request.sp_rt = 0
             THEN <<[px EXCEPT !.response = <<[status |-> 401, body |-> "no_token", retryAfter |-> 0]>>] @@ [pc |-> "done"]>>
             ELSE IF token = <<>>
             THEN <<[px EXCEPT !.refreshes = <<request.sp_rt>>] @@ [pc |-> "token"]>>
             ELSE <<[px EXCEPT !.apiCalls = 1] @@ [pc |-> "api"]>>
    /\ UNCHANGED <<variant, clock, recvVars, senderVars, lobbyVars, wsClients, rooms, directory,
                   delivered, handled>>

\* withValidAccessToken after its refresh exchange, then the API call
TokenRefreshed(a) ==
    /\ proxy # <<>> /\ proxy[1].pc = "token"
    /\ proxy' =
         IF a.status # 200
         THEN <<[proxy[1] EXCEPT !.pc = "done", !.exchanges = @ \o <<a>>,
                    !.response = <<[status |-> a.status, body |-> "refresh_failed", retryAfter |-> 0]>>]>>
         ELSE <<[proxy[1] EXCEPT !.pc = "api", !.exchanges = @ \o <<a>>,
                    !.accessToken = <<"refreshed">>, !.apiCalls = 1,
                    !.cookies = @ \o StoredBy(a, proxy[1].request.sp_rt)]>>
    /\ UNCHANGED <<variant, clock, recvVars, senderVars, lobbyVars, wsClients, rooms, directory,
                   delivered, handled>>

\* the API call is answered: /whoami and /currently-playing answer a 401 with a
\* refresh exchange when the request has an sp_rt cookie
ApiAnswered(r) ==
    /\ proxy # <<>> /\ proxy[1].pc = "api"
    /\ LET px == proxy[1]
           request == px.request
       IN  proxy' =
             IF /\ request.route \in {"whoami", "currently-playing"}
                /\ r.status = 401 /\ request.sp_rt # 0
             THEN <<[px EXCEPT !.pc = "refresh", !.answers = @ \o <<r>>,
                        !.refreshes = @ \o <<request.sp_rt>>]>>
             ELSE <<[px EXCEPT !.pc = "done", !.answers = @ \o <<r>>,
                        !.response = <<Reply(request.route, r)>>]>>
    /\ UNCHANGED <<variant, clock, recvVars, senderVars, lobbyVars, wsClients, rooms, directory,
                   delivered, handled>>

\* the exchange after a 401 is answered: on 200 the call is made again with the
\* new token, otherwise the route goes on with the 401
RetryRefreshed(a) ==
    /\ proxy # <<>> /\ proxy[1].pc = "refresh"
    /\ LET px == proxy[1] IN
       proxy' =
         IF a.status = 200
         THEN <<[px EXCEPT !.pc = "retry", !.exchanges = @ \o <<a>>,
                    !.accessToken = <<"refreshed">>, !.apiCalls = @ + 1,
                    !.cookies = @ \o StoredBy(a, px.request.sp_rt)]>>
         ELSE <<[px EXCEPT !.pc = "done", !.exchanges = @ \o <<a>>,
                    !.response = <<Reply(px.request.route, px.answers[Len(px.answers)])>>]>>
    /\ UNCHANGED <<variant, clock, recvVars, senderVars, lobbyVars, wsClients, rooms, directory,
                   delivered, handled>>

\* the repeated API call is answered
RetryAnswered(r) ==
    /\ proxy # <<>> /\ proxy[1].pc = "retry"
    /\ proxy' = <<[proxy[1] EXCEPT !.pc = "done", !.answers = @ \o <<r>>,
                       !.response = <<Reply(proxy[1].request.route, r)>>]>>
    /\ UNCHANGED <<variant, clock, recvVars, senderVars, lobbyVars, wsClients, rooms, directory,
                   delivered, handled>>

\* an axios call rejects (no answer at all): the route's catch answers 500
RequestFailed ==
    /\ proxy # <<>> /\ proxy[1].pc # "done"
    /\ proxy' = <<[proxy[1] EXCEPT !.pc = "done",
                       !.response = <<[status |-> 500, body |-> "route_failed", retryAfter |-> 0]>>]>>
    /\ UNCHANGED <<variant, clock, recvVars, senderVars, lobbyVars, wsClients, rooms, directory,
                   delivered, handled>>

(***************************************************************************)
(* The WebSocket servers                                                   *)
(*   "follow" - src/unnamed/part_001: upgrade check and broadcast relay    *)
(*   "room"   - src/unnamed/part_002: rooms, directory and heartbeat       *)
(* A string the code tests by prefix is a sequence of tokens.              *)
(***************************************************************************)
MaxConns == 2       \* connections made in one run

\* connections are numbered in the order they come
Conns == 1..MaxConns
RoomIds == {"r1", "r2"}
NoRoom == "none"

MaxSweeps == 2      \* heartbeat sweeps in one run
PING_SWEEP_MS == 25000

hubRest == <<variant, recvVars, senderVars, lobbyVars, proxy>>

Msg(type, roomId, user, host) == [type |-> type, roomId |-> roomId, user |-> user, host |-> host]

\* what clients send: the room protocol, and "presence" of the follow protocol
Messages ==
    {Msg("identify", NoRoom, "s1", NoUser), Msg("sync", NoRoom, NoUser, NoUser),
     Msg("presence", NoRoom, "s1", NoUser),
     Msg("go_live", "r2", NoUser, "s1"), Msg("go_offline", "r2", NoUser, NoUser)}
    \cup {Msg("join", r, NoUser, NoUser) : r \in RoomIds}

\* JSON.stringify
Encode(data) == <<"json", data>>

\* payloads on the wire: JSON texts, and JSON texts cut short
Payloads ==
    {Encode(msg) : msg \in Messages}
    \cup {<<"cut", msg>> : msg \in {m \in Messages : m.type \in {"sync", "join"}}}

\* a parser that reads what it can of a text that was cut short
ParseJsonLenient(raw) == <<raw[2]>>

\* try { msg = JSON.parse(raw) } catch { return }: <<>> = the catch branch
ParseJson(raw) == IF raw[1] = "json" THEN <<raw[2]>> ELSE <<>>

StartsWith(s, prefix) ==
    /\ Len(prefix) <= Len(s)
    /\ SubSeq(s, 1, Len(prefix)) = prefix

\* wss.clients with readyState OPEN
Clients == {c \in DOMAIN wsClients : wsClients[c].readyState = "OPEN"}

\* pinged: a ping went out at the last sweep; endedBy: what closed the connection
NewConn ==
    [readyState |-> "OPEN", isAlive |-> TRUE, meta |-> [roomId |-> NoRoom, user |-> NoUser],
     pinged |-> FALSE, endedBy |-> "none"]

\* a connection that is gone: nothing reads its fields again
Gone(by) == [NewConn EXCEPT !.readyState = "CLOSED", !.isAlive = FALSE, !.endedBy = by]

\* c.send(payload) for every c of targets, and nothing for the other connections
Send(targets, payload) ==
    [c \in DOMAIN wsClients |-> IF c \in targets THEN <<payload>> ELSE <<>>]

NoSend == Send({}, <<>>)

ensureRoom(rs, roomId) ==
    [r \in DOMAIN rs \cup {roomId} |-> IF r \in DOMAIN rs THEN rs[r] ELSE {}]

RoomAdd(rs, roomId, c) == [ensureRoom(rs, roomId) EXCEPT ![roomId] = @ \cup {c}]

\* if (r && rooms.has(r)) rooms.get(r).delete(ws), for every ws of cs
RoomDelete(rs, cs) ==
    [r \in DOMAIN rs |-> rs[r] \ {c \in cs : wsClients[c].meta.roomId = r}]

DirectoryMsg(dir) == Encode([type |-> "directory", lives |-> dir])

\* a relay that sends to every open client, the sender among them
RelayEcho(c, msg) ==
    /\ delivered' = Send(Clients, Encode(msg))
    /\ UNCHANGED <<wsClients, rooms, directory>>

\* part_001: forward to every other client that is open
Relay(c, msg) ==
    /\ delivered' = Send(Clients \ {c}, Encode(msg))
    /\ UNCHANGED <<wsClients, rooms, directory>>

broadcastToAll(dir) == delivered' = Send(Clients, DirectoryMsg(dir))

broadcastRoom(roomId, msg, except) ==
    IF roomId \in DOMAIN rooms
    THEN delivered' = Send((rooms[roomId] \cap Clients) \ {except}, Encode(msg))
    ELSE delivered' = NoSend

\* part_002: the message handler after the parse
RoomMessage(c, msg) ==
    IF msg.type = "identify" /\ msg.user # NoUser
    THEN /\ wsClients' = [wsClients EXCEPT ![c].meta.user = msg.user]
         /\ delivered' = NoSend
         /\ UNCHANGED <<rooms, directory>>
    ELSE IF msg.type = "join" /\ msg.roomId # NoRoom
    THEN /\ wsClients' = [wsClients EXCEPT ![c].meta.roomId = msg.roomId]
         /\ rooms' = RoomAdd(RoomDelete(rooms, {c}), msg.roomId, c)
         /\ delivered' = NoSend
         /\ UNCHANGED directory
    ELSE IF msg.type = "go_live" /\ msg.roomId # NoRoom /\ msg.host # NoUser
    THEN /\ wsClients' = [wsClients EXCEPT ![c].meta.roomId = msg.roomId]
         /\ rooms' = RoomAdd(rooms, msg.roomId, c)
         /\ directory' = MapSet(directory, [id |-> msg.roomId, host |-> msg.host, since |-> clock])
         /\ broadcastToAll(directory')
    ELSE IF msg.type = "go_offline" /\ msg.roomId # NoRoom
    THEN /\ directory' = MapDelete(directory, msg.roomId)
         /\ broadcastToAll(directory')
         /\ UNCHANGED <<wsClients, rooms>>
    ELSE IF msg.type \in {"sync", "track", "snapshot_request"} /\ wsClients[c].meta.roomId # NoRoom
    THEN /\ broadcastRoom(wsClients[c].meta.roomId, msg, c)
         /\ UNCHANGED <<wsClients, rooms, directory>>
    ELSE /\ delivered' = NoSend
         /\ UNCHANGED <<wsClients, rooms, directory>>

\* what `handled` holds after a handler that reads no payload
Did(kind, c) == <<[kind |-> kind, conn |-> c, raw |-> <<>>, accepted |-> TRUE, afterDrop |-> FALSE]>>

\* whether what was handled last is a payload of c that did not parse
Dropped(c) ==
    /\ handled # <<>>
    /\ handled[1].kind = "message"
    /\ handled[1].conn = c
    /\ ParseJson(handled[1].raw) = <<>>

\* ws.on("message") of either server
OnMessage(c, raw) ==
    /\ c \in Clients
    /\ handled' = <<[kind |-> "message", conn |-> c, raw |-> raw, accepted |-> TRUE,
                     afterDrop |-> Dropped(c)]>>
    /\ IF ParseJson(raw) = <<>>
       THEN /\ delivered' = NoSend
            /\ UNCHANGED <<wsClients, rooms, directory>>
       ELSE IF variant = "follow" THEN Relay(c, ParseJson(raw)[1])
            ELSE RoomMessage(c, ParseJson(raw)[1])
    /\ UNCHANGED <<clock, hubRest>>

\* part_002 wss.on("connection"): every connection is taken
Connect ==
    /\ variant = "room"
    /\ Len(wsClients) < MaxConns
    /\ wsClients' = Append(wsClients, NewConn)
    /\ delivered' = Append(NoSend, <<DirectoryMsg(directory)>>)
    /\ handled' = Did("connection", Len(wsClients) + 1)
    /\ UNCHANGED <<clock, hubRest, rooms, directory>>

\* ---- part_001: the upgrade ----
Ports == {":3000"}
OwnHost == "app.example"
LoopbackHosts == {<<"localhost">>, <<"127.0.0.1">>}

Origins ==
    {<<>>, <<"https://", OwnHost>>, <<"http://", OwnHost>>,
     <<"http://", "localhost">>, <<"http://", "localhost", ":3000">>, <<"http://", "127.0.0.1">>,
     <<"https://", "localhost">>, <<"https://", "evil.example">>,
     <<"http://", "localhost", ".evil.example">>}

Upgrades ==
    [url : {<<>>, <<"/">>, <<"/ws">>, <<"/ws", "?v=1">>},
     origin : Origins,
     host : {OwnHost},
     xfproto : {<<>>, <<"http://">>}]

\* the host an origin names: what follows the scheme, without the port
HostOf(origin) == SelectSeq(Tail(origin), LAMBDA t : t \notin Ports)

\* (x-forwarded-proto || req.protocol || "https") + "://" + (x-forwarded-host || host);
\* req.protocol is not a property of the request an upgrade carries
SelfOrigin(req) == <<IF req.xfproto # <<>> THEN req.xfproto[1] ELSE "https://", req.host>>

isWsOriginAllowed(req) ==
    \/ req.origin = <<>>
    \/ req.origin = SelfOrigin(req)
    \/ StartsWith(req.origin, <<"http://", "localhost">>)
    \/ StartsWith(req.origin, <<"http://", "127.0.0.1">>)

\* server.on("upgrade"): destroy the socket, or hand it to the relay
Upgrade(req) ==
    /\ variant = "follow"
    /\ Len(wsClients) < MaxConns
    /\ IF ~StartsWith(req.url, <<"/ws">>) \/ ~isWsOriginAllowed(req)
       THEN /\ handled' = <<[kind |-> "upgrade", conn |-> 0, raw |-> <<req>>, accepted |-> FALSE,
                             afterDrop |-> FALSE]>>
            /\ delivered' = NoSend
            /\ UNCHANGED wsClients
       ELSE /\ handled' = <<[kind |-> "upgrade", conn |-> Len(wsClients) + 1, raw |-> <<req>>,
                             accepted |-> TRUE,
                             afterDrop |-> FALSE]>>
            /\ wsClients' = Append(wsClients, NewConn)
            /\ delivered' = Append(NoSend, <<>>)
    /\ UNCHANGED <<clock, hubRest, rooms, directory>>

\* ws.on("close"): the client went away
Close(c) ==
    /\ c \in Clients
    /\ wsClients' = [wsClients EXCEPT ![c] = Gone("close")]
    /\ rooms' = RoomDelete(rooms, {c})
    /\ handled' = Did("close", c)
    /\ delivered' = NoSend
    /\ UNCHANGED <<clock, hubRest, directory>>

\* ws.on("pong", heartbeat): the client answers the ping it got
Pong(c) ==
    /\ variant = "room"
    /\ c \in Clients
    /\ wsClients[c].pinged /\ ~wsClients[c].isAlive
    /\ wsClients' = [wsClients EXCEPT ![c].isAlive = TRUE]
    /\ handled' = Did("pong", c)
    /\ delivered' = NoSend
    /\ UNCHANGED <<clock, hubRest, rooms, directory>>

\* a sweep that reclaims nothing
HeartbeatKeeps(w) == [w EXCEPT !.isAlive = FALSE, !.pinged = TRUE]

\* pingInterval, for one connection
Heartbeat(w) ==
    IF w.isAlive = FALSE
    THEN Gone("heartbeat")
    ELSE [w EXCEPT !.isAlive = FALSE, !.pinged = TRUE]

\* setInterval(..., 25000): the sweep over wss.clients; the close handler of a
\* terminated connection runs with it
Sweep ==
    /\ variant = "room"
    /\ clock + PING_SWEEP_MS <= T0 + MaxSweeps * PING_SWEEP_MS
    /\ clock' = clock + PING_SWEEP_MS
    /\ wsClients' = [c \in DOMAIN wsClients |->
                        IF c \in Clients THEN Heartbeat(wsClients[c]) ELSE wsClients[c]]
    /\ rooms' = RoomDelete(rooms, {c \in Clients : wsClients[c].isAlive = FALSE})
    /\ handled' = Did("sweep", 0)
    /\ delivered' = NoSend
    /\ UNCHANGED <<hubRest, directory>>

(***************************************************************************)
(* The receiver specifications                                             *)
(***************************************************************************)
RecvPart(variants) ==
    /\ variant \in variants
    /\ clock = T0
    /\ mode = "idle"
    /\ followingUserId = NoUser
    /\ recvNow = <<>>
    /\ recvNowSeen = <<>>
    /\ lastSyncRef = <<>>
    /\ pausedTargetRef = <<>>
    /\ meKnown = (variant = "follow")
    /\ hint = ""
    /\ received = <<>>
    /\ handlers = <<>>
    /\ lastSel = NoSel
    /\ lastCmd = NoCmd

RecvInit(variants) == RecvPart(variants) /\ SenderIdle /\ LobbyEmpty /\ BackendIdle

\* the follow-based receiver with the device lists drawn from Lists
FollowNext(Lists) ==
    \/ \E u \in LiveUsers : Mithoeren(u)
    \/ Verlassen
    \/ \E e \in FollowEvents(clock) : OnTrackPause(e)
    \/ \E h \in 1..MaxEvents : PauseSettled(h)
    \/ \E h \in 1..MaxEvents, devices \in Lists : DevicesResolved(h, devices)
    \/ \E h \in 1..MaxEvents : TransferResolved(h)
    \/ \E h \in 1..MaxEvents : PlayResolved(h)
    \/ \E h \in 1..MaxEvents : PlaybackFailed(h)

\* the room-based receiver with the device lists drawn from Lists
RoomNext(Lists) ==
    \/ RoomJoin
    \/ RoomReset
    \/ RoomWhoami
    \/ \E e \in RoomEvents(clock) : RoomOnSync(e)
    \/ \E h \in 1..MaxEvents, devices \in Lists : RoomDevicesResolved(h, devices)
    \/ \E h \in 1..MaxEvents : RoomTransferResolved(h)
    \/ \E h \in 1..MaxEvents : RoomPauseResolved(h)
    \/ \E h \in 1..MaxEvents : RoomPlayResolved(h)
    \/ \E h \in 1..MaxEvents : RoomSeekResolved(h)
    \/ \E h \in 1..MaxEvents : RoomSyncFailed(h)

\* Spec: the follow-based receiver, handlers overlapping
Init == RecvInit({"follow"})

Next == Tick \/ FollowNext(CoreLists)

Spec == Init /\ [][Next]_vars

\* RoomSpec: the room-based receiver, handlers overlapping
RoomInit == RecvInit({"room"})

RoomSpecNext == Tick \/ RoomNext(CoreLists)

RoomSpec == RoomInit /\ [][RoomSpecNext]_vars

\* the events of the pause-then-resume scenario: pause{A, 5000}, then track{A, 5000}
ResumeOrder(e) ==
    /\ e.trackId = "A"
    /\ e.progress_ms = 5000
    /\ e.is_playing = (received # <<>>)

\* ResumeSpec: either receiver getting pause{A, 5000} and then track{A, 5000}
BothInit == RecvInit({"follow", "room"})

ResumeNext ==
    \/ Tick
    \/ \E u \in LiveUsers : Mithoeren(u)
    \/ Verlassen
    \/ \E e \in FollowEvents(clock) : ResumeOrder(e) /\ OnTrackPause(e)
    \/ \E h \in 1..MaxEvents : PauseSettled(h)
    \/ \E h \in 1..MaxEvents, devices \in CoreLists : DevicesResolved(h, devices)
    \/ \E h \in 1..MaxEvents : TransferResolved(h)
    \/ \E h \in 1..MaxEvents : PlayResolved(h)
    \/ \E h \in 1..MaxEvents : PlaybackFailed(h)
    \/ RoomJoin
    \/ RoomReset
    \/ RoomWhoami
    \/ \E e \in RoomEvents(clock) : ResumeOrder(e) /\ RoomOnSync(e)
    \/ \E h \in 1..MaxEvents, devices \in CoreLists : RoomDevicesResolved(h, devices)
    \/ \E h \in 1..MaxEvents : RoomTransferResolved(h)
    \/ \E h \in 1..MaxEvents : RoomPauseResolved(h)
    \/ \E h \in 1..MaxEvents : RoomPlayResolved(h)
    \/ \E h \in 1..MaxEvents : RoomSeekResolved(h)
    \/ \E h \in 1..MaxEvents : RoomSyncFailed(h)

ResumeSpec == BothInit /\ [][ResumeNext]_vars

\* DeviceSpec: either receiver handling one event, every device list
DeviceNext ==
    \/ Tick
    \/ \E u \in LiveUsers : Mithoeren(u)
    \/ \E e \in FollowEvents(clock) : Len(handlers) < 1 /\ OnTrackPause(e)
    \/ \E devices \in DeviceLists : DevicesResolved(1, devices)
    \/ TransferResolved(1)
    \/ PlayResolved(1)
    \/ PlaybackFailed(1)
    \/ RoomJoin
    \/ \E e \in RoomEvents(clock) : Len(handlers) < 1 /\ RoomOnSync(e)
    \/ \E devices \in DeviceLists : RoomDevicesResolved(1, devices)
    \/ RoomTransferResolved(1)
    \/ RoomPauseResolved(1)
    \/ RoomPlayResolved(1)
    \/ RoomSyncFailed(1)

DeviceSpec == BothInit /\ [][DeviceNext]_vars

(***************************************************************************)
(* The sender and lobby specifications                                     *)
(***************************************************************************)
\* SenderSpec: the sender of either client polling a player the user acts on
SenderInit ==
    /\ RecvPart({"follow", "room"})
    /\ LobbyEmpty
    /\ BackendIdle
    /\ isSharing = FALSE
    /\ readyState \in {"CONNECTING", "OPEN"}
    /\ player \in {<<MkPlayer(x[1], x[2], TRUE)>> : x \in StartShapes}
    /\ senderNow = <<>>
    /\ nextPoll = 0
    /\ hasSentInitialRef = FALSE
    /\ lastBroadcastRef = NoBroadcast
    /\ lastPresencePingRef = 0
    /\ last = <<>>
    /\ pauseCooldownUntilRef = 0
    /\ sent = NoMsg
    /\ opsLeft = MaxOps
    /\ inFlight = FALSE

SenderNext ==
    \/ StartSharing
    \/ StopSharing
    \/ WsOpens
    \/ SenderTick(MaxSteps)
    \/ \E j \in Jumps : PlayerSeek(j)
    \/ PlayerToggle
    \/ PlayerNext
    \/ PlayerStop
    \/ Poll
    \/ RoomPoll
    \/ PollFailed
    \/ \E t \in {Me, "s1"} : OnReqSnapshot(t)
    \/ RoomOnSnapshotRequest
    \/ wsOpen /\ OnFollow("f1", Me)

SenderSpec == SenderInit /\ [][SenderNext]_vars

MaxSnapshotSteps == 5   \* clock steps in a snapshot run

\* SnapshotSpec: the follow-based sender playing one track from position 0 on,
\* untouched by the user, and asked for snapshots
SnapshotInit ==
    /\ RecvPart({"follow"})
    /\ LobbyEmpty
    /\ BackendIdle
    /\ isSharing = FALSE
    /\ readyState \in {"CONNECTING", "OPEN"}
    /\ player = <<MkPlayer("B", 0, TRUE)>>
    /\ senderNow = <<>>
    /\ nextPoll = 0
    /\ hasSentInitialRef = FALSE
    /\ lastBroadcastRef = NoBroadcast
    /\ lastPresencePingRef = 0
    /\ last = <<>>
    /\ pauseCooldownUntilRef = 0
    /\ sent = NoMsg
    /\ opsLeft = 0
    /\ inFlight = FALSE

SnapshotNext ==
    \/ StartSharing
    \/ WsOpens
    \/ SenderTick(MaxSnapshotSteps)
    \/ Poll
    \/ OnReqSnapshot(Me)
    \/ wsOpen /\ OnFollow("f1", Me)

SnapshotSpec == SnapshotInit /\ [][SnapshotNext]_vars

\* ProxySpec: one request at a time to the Spotify-facing routes
ProxyNext ==
    \/ \E request \in Requests : Arrive(request)
    \/ \E a \in RefreshAnswers : TokenRefreshed(a)
    \/ \E r \in ProviderAnswers : ApiAnswered(r)
    \/ \E a \in RefreshAnswers : RetryRefreshed(a)
    \/ \E r \in ProviderAnswers : RetryAnswered(r)
    \/ RequestFailed

ProxySpec == Init /\ [][ProxyNext]_vars

HubInit == RecvInit({"follow", "room"})

\* HubSpec: the connections of either server, their messages and the heartbeat
HubNext ==
    \/ \E req \in Upgrades : Upgrade(req)
    \/ Connect
    \/ \E c \in Conns, raw \in Payloads : OnMessage(c, raw)
    \/ \E c \in Conns : Close(c)
    \/ \E c \in Conns : Pong(c)
    \/ Sweep

HubSpec == HubInit /\ [][HubNext]_vars

(***************************************************************************)
(* A lobby client and a peer on the broadcast relay: what the peer's client *)
(* sends (follow, unfollow, presence) goes through part_001 to the client  *)
(* whose lobby the module holds.                                           *)
(***************************************************************************)
\* connections are numbered as they come: the peer is there first, the client
\* whose lobby this is joins it
PeerConn == 1       \* the connection of the other client
ClientConn == 2     \* the connection of the client whose lobby this is

WireMsg(type, action, user, targetUserId, ts) ==
    [type |-> type, action |-> action, user |-> user, targetUserId |-> targetUserId, ts |-> ts]

\* the peer's messages: f1 follows and unfollows, a sender's presence
PeerMessages(now) ==
    {WireMsg(k, "none", "f1", t, now) : k \in {"follow", "unfollow"}, t \in Users}
    \cup {WireMsg("presence", a, u, NoUser, now) : a \in {"start", "stop", "ping"}, u \in Users}

\* ws.current.onmessage of the lobby client for what the relay sent it; handling
\* a message a second time would change nothing and is left out
OnWsMessage ==
    /\ ClientConn \in Clients
    /\ delivered[ClientConn] # <<>>
    /\ ParseJson(delivered[ClientConn][1]) # <<>>
    /\ LET data == ParseJson(delivered[ClientConn][1])[1] IN
       CASE data.type = "presence" -> OnPresence(data.action, data.user, data.ts)
         [] data.type = "follow" -> OnFollow(data.user, data.targetUserId)
         [] data.type = "unfollow" -> OnUnfollow(data.user, data.targetUserId)
    /\ <<liveMap, liveList, followers>>' # <<liveMap, liveList, followers>>

\* the client has handled what the relay sent it: messages arrive in order
Arrived == ~ENABLED OnWsMessage

MeshInit == RecvInit({"follow"})

\* MeshSpec: two clients on the relay, the messages of one reaching the other
MeshNext ==
    \/ \E req \in Upgrades : Upgrade(req)
    \/ \E msg \in PeerMessages(clock) : Arrived /\ OnMessage(PeerConn, Encode(msg))
    \/ OnWsMessage
    \/ \E c \in {ClientConn, PeerConn} : Arrived /\ Close(c)

MeshSpec == MeshInit /\ [][MeshNext]_vars /\ WF_lobbyVars(OnWsMessage)

MaxStopSteps == 4   \* clock steps in a run that stops sharing

\* StopSpec: the follow-based sender whose ticks wait for their answer while the
\* user starts and stops sharing
StopInit == SenderInit /\ variant = "follow"

StopNext ==
    \/ StartSharing
    \/ StopSharing
    \/ WsOpens
    \/ SenderTick(MaxStopSteps)
    \/ PlayerToggle
    \/ PlayerNext
    \/ TickStarts
    \/ TickResolves

StopSpec == StopInit /\ [][StopNext]_vars

MaxPauseSteps == 8   \* clock steps in a run of a sender that stays paused

\* PausedSpec: the sender of either client polling a player the user pauses or
\* has paused, and leaves alone afterwards
PausedInit ==
    /\ RecvPart({"follow", "room"})
    /\ LobbyEmpty
    /\ BackendIdle
    /\ isSharing = FALSE
    /\ readyState \in {"CONNECTING", "OPEN"}
    /\ player \in {<<MkPlayer(x[1], x[2], p)>> : x \in StartShapes, p \in BOOLEAN}
    /\ senderNow = <<>>
    /\ nextPoll = 0
    /\ hasSentInitialRef = FALSE
    /\ lastBroadcastRef = NoBroadcast
    /\ lastPresencePingRef = 0
    /\ last = <<>>
    /\ pauseCooldownUntilRef = 0
    /\ sent = NoMsg
    /\ opsLeft = MaxOps
    /\ inFlight = FALSE

PausedNext ==
    \/ StartSharing
    \/ WsOpens
    \/ SenderTick(MaxPauseSteps)
    \/ player[1].is_playing /\ PlayerToggle
    \/ Poll
    \/ RoomPoll

PausedSpec == PausedInit /\ [][PausedNext]_vars

MaxIdleSteps == 14   \* clock steps in a run of a sender with nothing playing

\* IdleSpec: the follow-based sender over a player that has no item, or loses it
IdleInit ==
    /\ RecvPart({"follow"})
    /\ LobbyEmpty
    /\ BackendIdle
    /\ isSharing = FALSE
    /\ readyState \in {"CONNECTING", "OPEN"}
    /\ player \in {<<>>, <<MkPlayer("A", 10000, TRUE)>>}
    /\ senderNow = <<>>
    /\ nextPoll = 0
    /\ hasSentInitialRef = FALSE
    /\ lastBroadcastRef = NoBroadcast
    /\ lastPresencePingRef = 0
    /\ last = <<>>
    /\ pauseCooldownUntilRef = 0
    /\ sent = NoMsg
    /\ opsLeft = MaxOps
    /\ inFlight = FALSE

IdleNext ==
    \/ StartSharing
    \/ WsOpens
    \/ SenderTick(MaxIdleSteps)
    \/ PlayerStop
    \/ Poll

IdleSpec == IdleInit /\ [][IdleNext]_vars

MaxFaultSteps == 6      \* clock steps in a run with failing ticks

\* FaultSpec: the follow-based sender whose ticks may fail or be answered with
\* an error, while the user pauses, resumes or skips
FaultInit ==
    /\ RecvPart({"follow"})
    /\ LobbyEmpty
    /\ BackendIdle
    /\ isSharing = FALSE
    /\ readyState = "OPEN"
    /\ player \in {<<MkPlayer(x[1], x[2], TRUE)>> : x \in StartShapes}
    /\ senderNow = <<>>
    /\ nextPoll = 0
    /\ hasSentInitialRef = FALSE
    /\ lastBroadcastRef = NoBroadcast
    /\ lastPresencePingRef = 0
    /\ last = <<>>
    /\ pauseCooldownUntilRef = 0
    /\ sent = NoMsg
    /\ opsLeft = MaxOps
    /\ inFlight = FALSE

FaultNext ==
    \/ StartSharing
    \/ WsOpens
    \/ SenderTick(MaxFaultSteps)
    \/ PlayerToggle
    \/ PlayerNext
    \/ Poll
    \/ PollFailed
    \/ PollError

FaultSpec == FaultInit /\ [][FaultNext]_vars

MaxLobbyTicks == 4   \* clock steps in a lobby run

\* a lobby clock step: a third of the liveness window
LobbyStep == LIVE_WINDOW_MS \div 3

\* the users whose follow / unfollow messages reach the lobby: a sender and a listener
Followers == {"s2", "f1"}

LobbyTick ==
    /\ clock < T0 + MaxLobbyTicks * LobbyStep
    /\ clock' = clock + LobbyStep
    /\ UNCHANGED <<senderVars, lobbyVars, variant, backendVars, recvVars>>

\* LobbySpec: the lobby of the follow-based client under presence, track / pause,
\* follow and unfollow messages stamped with the time they arrive at
LobbyNext ==
    \/ LobbyTick
    \/ \E action \in {"start", "stop", "ping"}, uid \in Users : OnPresence(action, uid, clock)
    \/ \E u \in LiveUsers : OnTrackPause(MkEvent(u, "A", 5000, TRUE, clock, FALSE))
    \/ \E f \in Followers, t \in Users : OnFollow(f, t)
    \/ \E f \in Followers, t \in Users : OnUnfollow(f, t)

LobbySpec == Init /\ [][LobbyNext]_vars

(***************************************************************************)
(* Properties of the receiver                                              *)
(***************************************************************************)
\* the fields of event e as a Reconciliation State
Verbatim(e) ==
    [id |-> e.trackId, progress_ms |-> e.progress_ms, leaderTs |-> e.ts,
     is_playing |-> e.is_playing]

Quiescent == \A h \in 1..Len(handlers) : handlers[h].pc = "done"

\* C1 (as claimed): once every handler has returned, recvNow is the most
\* recently received event and the provider command issued last was not issued
\* for an earlier event after a later one had been received.
C1_LastWriteWins ==
    (Quiescent /\ received # <<>> /\ mode = "receiver" /\ recvNow # <<>>)
        => /\ recvNow = <<Verbatim(received[Len(received)])>>
           /\ lastCmd.ev >= lastCmd.seen

\* C7: the step that writes recvNow for event E (at once for a track event,
\* when backendPause has settled for a pause event) leaves exactly E's fields
\* in recvNow, whatever recvNow held before; and when the same E was received
\* twice and both writes are done, recvNow is E's fields as after one write.
C7_TrackWrite ==
    (Len(handlers') = Len(handlers) + 1 /\ handlers'[Len(handlers')].pc = "devices")
        => recvNow' = <<Verbatim(handlers'[Len(handlers')].ev)>>

C7_PauseWrite ==
    \A h \in 1..Len(handlers) :
        (handlers[h].pc = "pause" /\ handlers'[h].pc = "done")
            => recvNow' = <<Verbatim(handlers[h].ev)>>

C7_Idempotent ==
    (/\ Len(received) = 2
     /\ received[1] = received[2]
     /\ Len(handlers) = 2
     /\ \A h \in 1..2 : handlers[h].pc # "pause"
     /\ recvNow # <<>>)
        => recvNow = <<Verbatim(received[2])>>

C7_Verbatim == [][C7_TrackWrite /\ C7_PauseWrite]_vars /\ []C7_Idempotent

\* a pause event written over the state of a track event with other fields
C7_Witness ==
    /\ Len(received) = 2
    /\ received[1].is_playing /\ ~received[2].is_playing
    /\ received[1].trackId # received[2].trackId
    /\ received[1].progress_ms # received[2].progress_ms
    /\ Quiescent
    /\ recvNow = <<Verbatim(received[2])>>

\* C10 (as claimed): every transfer or play request is made while the client
\* is still a receiver of the sender whose event the request serves.
C10_NoEffectAfterLeave ==
    lastCmd.op \in {"transfer", "play"} => lastCmd.engaged

\* C8: in either receiver, after pause{A, 5000} and then track{A, 5000, playing},
\* no command issued for the second event is a play without uris and position:
\* a play issued for it names track A and a position of at least 5000 ms; and
\* with the pause of the first event pending (always so in the follow-based
\* receiver, the pause target recorded in the room-based one) the command the
\* second handler issues after any transfer is that play.
C8_Explicit ==
    (Len(received) = 2 /\ lastCmd.ev = 2)
        => /\ lastCmd.op # "resume"
           /\ lastCmd.op = "play" => (lastCmd.uri = "A" /\ lastCmd.pos >= 5000)

C8_Resumes ==
    (/\ lastCmd' # lastCmd
     /\ lastCmd'.ev = 2
     /\ lastCmd'.op # "transfer"
     /\ (variant = "follow" \/ pausedTargetRef # <<>>))
        => lastCmd'.op = "play"

FirstIndex(devices, Match) ==
    CHOOSE i \in 1..Len(devices) :
        devices[i] \in Match /\ \A j \in 1..(i - 1) : devices[j] \notin Match

\* the device the rule names: the active one, else the first non-restricted, else the first
RuleDevice(devices) ==
    LET active == {d \in Elems(devices) : d.is_active}
        free == {d \in Elems(devices) : ~d.is_restricted}
    IN  IF active # {} THEN devices[FirstIndex(devices, active)]
        ELSE IF free # {} THEN devices[FirstIndex(devices, free)]
        ELSE devices[1]

Example1 == <<[id |-> 1, is_active |-> FALSE, is_restricted |-> TRUE],
              [id |-> 2, is_active |-> FALSE, is_restricted |-> FALSE]>>

Example2 == <<[id |-> 1, is_active |-> TRUE, is_restricted |-> FALSE]>>

\* the step on which the device query of the handler is answered
C9_Step(TransfersWhen(_)) ==
    (lastSel' # lastSel) =>
        LET devices == lastSel'.devices
            device == lastSel'.device
            issued == lastCmd' # lastCmd
        IN  IF devices = <<>>
            THEN ~issued /\ hint' = "no_device"
            ELSE /\ device = RuleDevice(devices)
                 /\ (issued /\ lastCmd'.op = "transfer" /\ lastCmd'.dev = device.id)
                        <=> TransfersWhen(device)
                 /\ (issued /\ lastCmd'.op = "play") => device.is_active
                 /\ devices = Example1 => device.id = 2
                 /\ devices = Example2 => (device.id = 1 /\ lastCmd'.op # "transfer")

\* no transfer but to the selected, inactive device; nothing after an empty list
C9_State ==
    /\ lastCmd.op = "transfer"
          => (lastSel.h = lastCmd.ev /\ ~lastSel.device.is_active /\ lastCmd.dev = lastSel.device.id)
    /\ (lastSel.h = 1 /\ lastSel.devices = <<>>)
          => (lastCmd.op \notin {"transfer", "play"} /\ hint = "no_device")

\* C9 (as claimed): the active device, else the first non-restricted, else the
\* first is selected; a transfer is issued exactly when the selected device is
\* not active; an empty list gives no transfer, no play and a hint.
C9_AsClaimed ==
    [][C9_Step(LAMBDA device : ~device.is_active)]_vars /\ []C9_State

\* C9 (amended): as claimed, except that the follow-based receiver issues no
\* transfer and no play, and sets a hint, when the selected device has no id.
C9_DeviceRule ==
    [][C9_Step(LAMBDA device : ~device.is_active /\ (variant = "room" \/ device.id # 0))]_vars
        /\ []C9_State

\* the first example of the rule: device 2 selected and transferred to
C9_Witness ==
    /\ lastSel.devices = Example1
    /\ lastSel.device.id = 2
    /\ lastCmd.op = "transfer"
    /\ lastCmd.dev = 2

(***************************************************************************)
(* Properties of the sender                                                *)
(***************************************************************************)
\* a tick of the poll loop that got an observation
PollStep ==
    /\ isSharing
    /\ clock = nextPoll
    /\ nextPoll' # nextPoll
    /\ hint' # "fetch_error"
    /\ player # <<>>

\* the step put a playback message on the wire
Emitted == sent'.n # sent.n

\* the observation has lastBroadcast's track and play state
C2_Same ==
    /\ player[1].trackId = lastBroadcastRef.trackId
    /\ player[1].is_playing = lastBroadcastRef.is_playing

\* |observed progress_ms - expected|
C2_Drift ==
    LET expected == IF lastBroadcastRef.is_playing
                    THEN lastBroadcastRef.progress_ms + (clock - lastBroadcastRef.sentAt)
                    ELSE lastBroadcastRef.progress_ms
    IN  Abs(player[1].progress_ms - expected)

\* lastBroadcast {track A, 10000 ms, sentAt T0, playing}, observed at T0 + 2000
C2_Example(q) ==
    /\ lastBroadcastRef = Broadcast("A", 10000, TRUE, T0)
    /\ clock = T0 + 2000
    /\ player[1].progress_ms = q

C2_Step(Pre) ==
    (PollStep /\ variant = "follow" /\ C2_Same /\ Pre)
        => /\ Emitted <=> C2_Drift > DRIFT_MS
           /\ Emitted => (sent'.progress_ms = player[1].progress_ms /\ sent'.ts = clock)
           /\ C2_Example(16000) => Emitted
           /\ C2_Example(12500) => ~Emitted

C3_TrackChangeEmits ==
    [][(PollStep /\ wsOpen /\ player[1].trackId # sent.trackId)
          => (Emitted /\ sent'.trackId = player[1].trackId /\ sent'.ts = clock)]_vars

\* C4 (as claimed): for the snapshot a sender playing track B from position 0
\* at T0 on sends 5000 ms later, its initial message sent, the start position a
\* receiver computes, progress_ms + (now - ts), is the position the sender's
\* player is at then.
C4_SnapshotFresh ==
    (sent.why = "snapshot" /\ sent.ts = T0 + 5000 /\ hasSentInitialRef)
        => \A latency \in {0, Step} :
               Desired(sent.progress_ms, sent.ts, sent.ts + latency) = sent.playerAt + latency

(***************************************************************************)
(* Properties of the lobby                                                 *)
(***************************************************************************)
Listed(u) == \E i \in 1..Len(liveList) : liveList[i] = u

\* C5 (as claimed): whenever it is read, liveList holds exactly the users whose
\* lastSeen is within LIVE_WINDOW_MS (a user exactly at the edge may be either).
C5_LiveListExact ==
    \A u \in Users :
        /\ Listed(u) => (Has(liveMap, u) /\ clock - Get(liveMap, u).lastSeen <= LIVE_WINDOW_MS)
        /\ (Has(liveMap, u) /\ clock - Get(liveMap, u).lastSeen < LIVE_WINDOW_MS) => Listed(u)

SameAudiences(fs, gs) == \A x \in Users : Audience(fs, x) = Audience(gs, x)

\* C6 (as claimed): after follow(f, t) and then unfollow(f, t) every audience
\* is what it was before the follow.
C6_AsClaimed ==
    (roundTrip # NoTrip /\ roundTrip[1].done)
        => SameAudiences(followers, roundTrip[1].before)

\* C6 (amended): so it is when f was not in t's audience before the follow;
\* when it was, t's audience has lost f and the other audiences are unchanged.
C6_RoundTrip ==
    (roundTrip # NoTrip /\ roundTrip[1].done)
        => LET f == roundTrip[1].f
               t == roundTrip[1].t
               before == roundTrip[1].before
           IN  /\ f \notin Audience(before, t) => SameAudiences(followers, before)
               /\ Audience(followers, t) = Audience(before, t) \ {f}
               /\ \A x \in Users \ {t} : Audience(followers, x) = Audience(before, x)

\* a round trip of a new follower through an audience that has another member
C6_Witness ==
    /\ roundTrip # NoTrip
    /\ roundTrip[1].done
    /\ roundTrip[1].f \notin Audience(roundTrip[1].before, roundTrip[1].t)
    /\ Audience(roundTrip[1].before, roundTrip[1].t) # {}
    /\ SameAudiences(followers, roundTrip[1].before)

\* C16 (as claimed): in the follow graph a client holds, no follower is in the
\* audience of two targets.
C16_SingleTarget ==
    \A f \in Followers : \A a, b \in Users \ {f} :
        (f \in Audience(followers, a) /\ f \in Audience(followers, b)) => a = b

\* C17: processing presence stop for U leaves no entry and no audience for U,
\* and leaves the entry and the audience of every other user as they were.
C17_Step ==
    \A U \in Users :
        OnPresence("stop", U, clock)
            => /\ ~Has(liveMap', U)
               /\ U \notin DOMAIN followers'
               /\ \A f \in Followers : f \notin Audience(followers', U)
               /\ \A x \in Users \ {U} :
                     /\ Audience(followers', x) = Audience(followers, x)
                     /\ (x \in DOMAIN followers') = (x \in DOMAIN followers)
                     /\ Has(liveMap', x) = Has(liveMap, x)
                     /\ Has(liveMap, x) => Get(liveMap', x) = Get(liveMap, x)

C17_GoOfflineCascade == [][C17_Step]_vars

\* a stop has just removed the entry and the audience of a user while another
\* user keeps its entry and its audience
C17_Witness ==
    /\ roundTrip # NoTrip
    /\ roundTrip[1].f = NoUser
    /\ Audience(roundTrip[1].before, roundTrip[1].t) # {}
    /\ roundTrip[1].t \notin DOMAIN followers
    /\ ~Has(liveMap, roundTrip[1].t)
    /\ \E x \in Users \ {roundTrip[1].t} :
          /\ Has(liveMap, x)
          /\ Audience(followers, x) # {}
          /\ Audience(followers, x) = Audience(roundTrip[1].before, x)

(***************************************************************************)
(* Properties of a sender that stops sharing                               *)
(***************************************************************************)
\* C11 (as claimed): a sender that is not sharing sends no track / pause
\* message, whether or not a tick was waiting for its answer when it stopped.
C11_StopHalts == [][~isSharing => sent' = sent]_vars

(***************************************************************************)
(* Properties of the routes that proxy Spotify                             *)
(***************************************************************************)
\* the request being served has been answered by the route itself (not by its catch)
Answered ==
    /\ proxy # <<>>
    /\ proxy[1].pc = "done"
    /\ proxy[1].response[1].body # "route_failed"

\* C12 (as claimed): a request to /whoami or /currently-playing that has an
\* sp_rt cookie and whose API call is answered 401 makes exactly one refresh
\* exchange for that 401 and at most one more API call; when the repeated call
\* is answered 401 too, the caller gets 401; no request makes more than two API
\* calls or more than two exchanges.
C12_RefreshRetryOnce ==
    /\ proxy # <<>> => (proxy[1].apiCalls <= 2 /\ Len(proxy[1].refreshes) <= 2)
    /\ (/\ Answered
        /\ proxy[1].request.route \in {"whoami", "currently-playing"}
        /\ proxy[1].request.sp_rt # 0
        /\ proxy[1].answers # <<>>
        /\ proxy[1].answers[1].status = 401)
           => LET px == proxy[1]
                  early == IF AccessTokenOf(px.request) = <<>> THEN 1 ELSE 0
              IN  /\ Len(px.refreshes) = early + 1
                  /\ (Len(px.answers) = 2 /\ px.answers[2].status = 401)
                         => px.response[1].status = 401

\* the request presents no credential at all
NoCredential(request) ==
    request.authorization = <<>> /\ ~request.sp_at /\ request.sp_rt = 0

CookieNames(px) == {px.cookies[i].name : i \in 1..Len(px.cookies)}

\* the request makes withValidAccessToken exchange the refresh token
RefreshOnly(request) ==
    request.authorization = <<>> /\ ~request.sp_at /\ request.sp_rt # 0

\* C14: withValidAccessToken exchanges the refresh token exactly for the requests
\* that present no access token but an sp_rt cookie.  When the exchange is
\* answered 200 the call to Spotify is made with the new token, sp_at is
\* stored and sp_rt is stored iff the answer rotates it; on any other status
\* the request fails with that status, no call is made and no cookie written.
C14_Arrival ==
    (proxy = <<>> /\ proxy' # <<>>)
        => /\ (proxy'[1].pc = "token") = RefreshOnly(proxy'[1].request)
           /\ proxy'[1].refreshes = IF RefreshOnly(proxy'[1].request)
                                    THEN <<proxy'[1].request.sp_rt>> ELSE <<>>

C14_Exchange ==
    (proxy # <<>> /\ RefreshOnly(proxy[1].request) /\ proxy[1].exchanges # <<>>)
        => LET px == proxy[1]
               a == px.exchanges[1]
           IN  IF a.status = 200
               THEN /\ px.accessToken = <<"refreshed">>
                    /\ px.apiCalls >= 1
                    /\ Len(px.cookies) >= 1
                    /\ px.cookies[1].name = "sp_at"
                    /\ (Len(px.exchanges) = 1
                          => CookieNames(px) = IF a.rotated THEN {"sp_at", "sp_rt"} ELSE {"sp_at"})
               ELSE /\ px.pc = "done"
                    /\ px.response[1].status = a.status
                    /\ px.apiCalls = 0
                    /\ px.cookies = <<>>

C14_RefreshOnly == [][C14_Arrival]_vars /\ []C14_Exchange

C14_Witness ==
    /\ proxy # <<>>
    /\ RefreshOnly(proxy[1].request)
    /\ Len(proxy[1].exchanges) = 1
    /\ proxy[1].exchanges[1].rotated
    /\ proxy[1].pc = "api"
    /\ CookieNames(proxy[1]) = {"sp_at", "sp_rt"}

\* C15 (as claimed): on every route, a 429 from Spotify ends the request: the
\* caller is answered 429 with the Retry-After Spotify gave, and no call follows.
C15_RateLimitPassThrough ==
    Answered =>
        \A i \in 1..Len(proxy[1].answers) :
            proxy[1].answers[i].status = 429
                => /\ i = Len(proxy[1].answers)
                   /\ proxy[1].apiCalls = i
                   /\ proxy[1].response[1].status = 429
                   /\ proxy[1].answers[i].retryAfter # 0
                         => proxy[1].response[1].retryAfter = proxy[1].answers[i].retryAfter

(***************************************************************************)
(* Properties of the WebSocket servers                                     *)
(***************************************************************************)
\* whether the step is the message handler given a payload that is no JSON text
DropStep == handled'[1].kind = "message" /\ handled'[1].raw[1] # "json"

\* whether the step handles a JSON text of a connection whose payload before
\* it was dropped
AfterDropStep ==
    /\ handled'[1].kind = "message"
    /\ handled'[1].raw[1] = "json"
    /\ handled # <<>>
    /\ handled[1].kind = "message"
    /\ handled[1].conn = handled'[1].conn
    /\ handled[1].raw[1] # "json"

C18_Step ==
    LET c == handled'[1].conn
        msg == handled'[1].raw[2]
    IN  /\ DropStep =>
              /\ \A x \in DOMAIN delivered' : delivered'[x] = <<>>
              /\ wsClients' = wsClients
              /\ rooms' = rooms
              /\ directory' = directory
              /\ wsClients'[c].readyState = "OPEN"
        /\ AfterDropStep =>
              /\ wsClients'[c].readyState = "OPEN"
              /\ variant = "follow" =>
                    \A x \in DOMAIN wsClients \ {c} :
                        wsClients[x].readyState = "OPEN" => delivered'[x] = <<handled'[1].raw>>
              /\ (variant = "room" /\ msg.type = "join") =>
                    /\ wsClients'[c].meta.roomId = msg.roomId
                    /\ c \in rooms'[msg.roomId]
              /\ (variant = "room" /\ msg.type = "sync") =>
                    \A x \in DOMAIN wsClients \ {c} :
                        (/\ wsClients[x].readyState = "OPEN"
                         /\ wsClients[c].meta.roomId # NoRoom
                         /\ wsClients[x].meta.roomId = wsClients[c].meta.roomId)
                            => delivered'[x] = <<handled'[1].raw>>

\* C18: a payload that is no JSON text is sent on to no connection, changes
\* neither rooms, directory nor any connection's fields and leaves the sender
\* open; a JSON text that follows on the same connection is handled as usual.
C18_MalformedDropped == [][C18_Step]_vars

\* a JSON text has reached another connection right after a payload of the same
\* sender was dropped
C18_Witness ==
    /\ handled # <<>>
    /\ handled[1].kind = "message"
    /\ handled[1].afterDrop
    /\ handled[1].raw[1] = "json"
    /\ wsClients[handled[1].conn].readyState = "OPEN"
    /\ \E x \in DOMAIN delivered \ {handled[1].conn} : delivered[x] = <<handled[1].raw>>

\* the origin the server calls its own: https, or the forwarded protocol, and
\* the host the request was sent to
OwnOrigins(req) == {<<scheme, req.host>> : scheme \in {"https://"} \cup {req.xfproto[i] : i \in DOMAIN req.xfproto}}

\* C19 (as claimed): an upgrade is accepted only if the path starts with /ws
\* and the Origin is absent, the server's own, or names a loopback host; an
\* upgrade whose Origin names a host that is neither the server's nor a
\* loopback host is destroyed and registers no connection.
C19_OriginValidation ==
    (handled # <<>> /\ handled[1].kind = "upgrade") =>
        LET req == handled[1].raw[1]
        IN  /\ handled[1].accepted =>
                  /\ Len(req.url) > 0 /\ req.url[1] = "/ws"
                  /\ \/ req.origin = <<>>
                     \/ req.origin \in OwnOrigins(req)
                     \/ HostOf(req.origin) \in LoopbackHosts
            /\ (/\ req.origin # <<>>
                 /\ HostOf(req.origin) # <<req.host>>
                 /\ HostOf(req.origin) \notin LoopbackHosts)
                  => /\ ~handled[1].accepted
                     /\ handled[1].conn = 0
                     /\ delivered = [c \in DOMAIN wsClients |-> <<>>]

\* the sweep is the only step of the servers that moves the clock
SweepStep == clock' = clock + PING_SWEEP_MS

\* whether a pong of connection c has come since the sweep before
PongSince(c) == wsClients[c].pinged /\ wsClients[c].isAlive

\* whether c got a ping at the sweep before and has not answered it
Unanswered(c) == wsClients[c].pinged /\ ~wsClients[c].isAlive

Terminated(c) == wsClients'[c].readyState = "CLOSED" /\ wsClients'[c].endedBy = "heartbeat"

Pinged(c) ==
    /\ wsClients'[c].readyState = "OPEN"
    /\ wsClients'[c].pinged
    /\ ~wsClients'[c].isAlive

\* C20 (as claimed): at a sweep every connection from which no pong has come
\* since the sweep before is terminated.
C20_AsClaimed == [][SweepStep => \A c \in Clients : ~PongSince(c) => Terminated(c)]_vars

C20_Step ==
    /\ SweepStep =>
          \A c \in Clients :
              /\ Unanswered(c) => Terminated(c)
              /\ ~Unanswered(c) => Pinged(c)
    /\ \A c \in DOMAIN wsClients :
          (wsClients'[c].endedBy = "heartbeat" /\ wsClients[c].endedBy # "heartbeat")
              => SweepStep /\ Unanswered(c)

\* C20: at each sweep, 25 s after the one before, a connection that got a ping
\* at the sweep before and has not answered it is terminated; every other open
\* connection (one that answered, or one that opened since) stays open and gets
\* a ping; nothing else ends a connection in the heartbeat's name.
C20_HeartbeatReclaim == [][C20_Step]_vars

\* the second sweep has terminated the connection that came second and never
\* answered, and has pinged again the older one, which answered the first ping
C20_Witness ==
    /\ Len(wsClients) = 2
    /\ clock = T0 + 2 * PING_SWEEP_MS
    /\ wsClients[2].endedBy = "heartbeat"
    /\ wsClients[1].readyState = "OPEN"
    /\ wsClients[1].pinged

(***************************************************************************)
(* Properties of the sender's retained state                               *)
(***************************************************************************)
\* whether the poll loop holds no emitted state of this sharing session yet
NothingEmittedYet == IF variant = "follow" THEN ~hasSentInitialRef ELSE last = <<>>

\* C21 (as claimed): a tick that observes an item while nothing was emitted in
\* the session emits the observation if the connection is open, and a step
\* records a state as emitted only if it sends it.
C21_FirstObservation ==
    [][/\ (PollStep /\ NothingEmittedYet /\ wsOpen)
            => (Emitted /\ sent'.trackId = player[1].trackId /\ sent'.ts = clock)
       /\ (isSharing /\ NothingEmittedYet /\ ~NothingEmittedYet') => Emitted]_vars

\* the state the poll loop holds as emitted last: track, play state, position
LastEmitted ==
    IF variant = "follow"
    THEN [trackId |-> lastBroadcastRef.trackId, is_playing |-> lastBroadcastRef.is_playing,
          progress_ms |-> lastBroadcastRef.progress_ms]
    ELSE [trackId |-> last[1].trackId, is_playing |-> last[1].is_playing,
          progress_ms |-> last[1].basePos]

\* C22 (as claimed): a tick that observes the paused state emitted last, same
\* track and same position, emits nothing, however long ago that was.
C22_PausedExpected ==
    [][(/\ PollStep
        /\ ~NothingEmittedYet
        /\ ~player[1].is_playing
        /\ LastEmitted = player[1])
           => ~Emitted]_vars

\* whether the step writes the retained state (the reset to null of a new poll
\* effect is no write)
RetainedWritten ==
    IF variant = "follow" THEN lastBroadcastRef' # lastBroadcastRef
    ELSE last' # last /\ last' # <<>>

\* whether the retained state after the step has the fields of the message sent
RetainedIsSent ==
    IF variant = "follow"
    THEN lastBroadcastRef' = Broadcast(sent'.trackId, sent'.progress_ms, sent'.is_playing, sent'.ts)
    ELSE last' = <<[trackId |-> sent'.trackId, is_playing |-> sent'.is_playing,
                    basePos |-> sent'.progress_ms, baseTs |-> sent'.ts]>>

\* C23 (as claimed): the retained state is written only by a step that sends a
\* playback message on the open connection, and then holds that message's fields.
C23_WrittenOnEmission == [][RetainedWritten => (Emitted /\ wsOpen /\ RetainedIsSent)]_vars

C24_Step ==
    \A t \in {Me, "s1"} :
        OnReqSnapshot(t) =>
            IF isSharing /\ senderNow # <<>> /\ t = Me
            THEN /\ sent'.n = 1 - sent.n
                 /\ sent'.trackId = senderNow[1].id
                 /\ sent'.progress_ms = senderNow[1].progress_ms
                 /\ sent'.is_playing = senderNow[1].is_playing
                 /\ sent'.ts = clock
                 /\ clock' = clock /\ nextPoll' = nextPoll
            ELSE sent' = sent

\* C24: a sharing client that knows its current track answers a req_snapshot
\* naming it with one message carrying that state, in the handler's own step
\* and at no poll tick; a req_snapshot naming another user, or reaching a client
\* that is not sharing, sends nothing.
C24_SnapshotOnRequest == [][C24_Step]_vars

\* a snapshot went out half way between two ticks, and no follow caused it
C24_Witness ==
    /\ variant = "follow"
    /\ isSharing
    /\ roundTrip = NoTrip
    /\ sent.why = "snapshot"
    /\ sent.ts = T0 + HalfPoll
    /\ clock = T0 + HalfPoll
    /\ nextPoll = T0 + PollPeriod
    /\ sent.trackId = senderNow[1].id

(***************************************************************************)
(* Properties of the receiver's reaction to events                         *)
(***************************************************************************)
\* whether the client is a receiver of the sender of event e
Follows(e) == mode = "receiver" /\ e.user = followingUserId

C25_Step ==
    \* an event of a sender the client does not follow, or reaching a client that
    \* is no receiver, starts no handler and leaves recvNow alone
    /\ \A e \in FollowEvents(clock) :
          (OnTrackPause(e) /\ ~Follows(e))
              => (handlers' = handlers /\ lastCmd' = lastCmd /\ recvNow' = recvNow)
    \* a handler starts only for an event of the followed sender
    /\ Len(handlers') > Len(handlers) => Follows(handlers'[Len(handlers')].ev)
    \* a provider command comes from a handler only, for its event
    /\ lastCmd' # lastCmd =>
          /\ lastCmd'.ev \in 1..Len(handlers')
          /\ handlers'[lastCmd'.ev].ev # NoEvent
          /\ lastCmd'.ev \in 1..Len(handlers) => handlers[lastCmd'.ev].ev = handlers'[lastCmd'.ev].ev

\* C25: the follow-based client starts a handler, and so issues pause, transfer
\* and play, only for a track / pause event that reaches it in receiver mode
\* from the sender it follows; any other event leaves handlers, commands and
\* recvNow as they were.
C25_AudienceScoping == [][C25_Step]_vars

\* an event of s2 has reached a receiver of s1 (the lobby shows s2) whose only
\* handler, for an event of s1, has issued its command
C25_Witness ==
    /\ mode = "receiver"
    /\ followingUserId = "s1"
    /\ Has(liveMap, "s2")
    /\ Len(handlers) = 1
    /\ lastCmd.ev = 1
    /\ lastCmd.op \in {"pause", "play"}
    /\ \A i \in 1..Len(received) : received[i].user = "s1"

\* the event of the handler that issued the command of this step
IssuedFor == handlers'[lastCmd'.ev].ev

\* C26 (as claimed): a provider command issued for an event with is_playing
\* false is a pause; no transfer, play or seek is issued for it, by either
\* receiver.
C26_PauseOnly ==
    [][(lastCmd' # lastCmd /\ ~IssuedFor.is_playing) => lastCmd'.op = "pause"]_vars

\* the second of two events repeats the first: the same sender and track, both
\* playing, no seek signal; the first was handled to the end, its play command
\* went out before the second arrived and was answered, and recvNow shows the
\* track playing
Repeats ==
    /\ Len(received) = 2
    /\ Len(handlers) = 2
    /\ handlers[2].ev = received[2]
    /\ received[1].user = received[2].user
    /\ received[1].trackId = received[2].trackId
    /\ received[1].is_playing /\ received[2].is_playing
    /\ ~received[2].is_seek
    /\ handlers[1].pc = "done"
    /\ hint = ""
    /\ lastCmd.ev = 1 /\ lastCmd.seen = 1 /\ lastCmd.engaged
    /\ lastCmd.op = "play" /\ lastCmd.uri = received[2].trackId
    /\ recvNow # <<>> /\ recvNow[1].id = received[2].trackId /\ recvNow[1].is_playing

\* C27 (as claimed): the handler of an event that repeats what the receiver is
\* already playing (same track, is_playing true, no seek signal), on a device
\* that is active, issues no provider command.
C27_NoRedundantCall ==
    [][~(Repeats /\ lastSel'.device.is_active /\ lastCmd' # lastCmd /\ lastCmd'.ev = 2)]_vars

\* C28 (as claimed): in the room-based receiver a play issued while a pause
\* target is pending names the trackId of the playing event that caused it and
\* that event's latency-adjusted position, not the values kept from the pause
\* event.
C28_ResumeFromEvent ==
    [][(/\ variant = "room"
        /\ pausedTargetRef # <<>>
        \* the pause went out for the first event, before the second arrived
        /\ lastCmd.op = "pause" /\ lastCmd.ev = 1 /\ lastCmd.seen = 1
        /\ lastCmd' # lastCmd /\ lastCmd'.op = "play" /\ lastCmd'.ev = 2)
          => /\ lastCmd'.uri = IssuedFor.trackId
             /\ lastCmd'.pos = Max(0, handlers'[lastCmd'.ev].desired)]_vars

(***************************************************************************)
(* Properties of the presence directory                                    *)
(***************************************************************************)
C29_Step ==
    \A u \in Users :
        OnPresence("ping", u, clock) =>
            \* no entry appears or goes, the entries keep their places
            /\ Len(liveMap') = Len(liveMap)
            /\ \A i \in 1..Len(liveMap) :
                  /\ liveMap'[i].id = liveMap[i].id
                  /\ liveMap'[i].since = liveMap[i].since
                  /\ liveMap'[i].lastTrack = liveMap[i].lastTrack
                  /\ liveMap[i].id # u => liveMap'[i] = liveMap[i]
                  /\ liveMap[i].id = u => liveMap'[i].lastSeen = clock
            /\ followers' = followers

\* C29: a presence ping of user U sets the lastSeen of U's entry and leaves its
\* since and lastTrack, every other entry and the follow graph as they were; a
\* ping of a user without an entry creates none.
C29_PingTouchesLastSeen == [][C29_Step]_vars

\* s1 went live and was pinged later, with no track event of s1 in between,
\* while s2 is in the directory as well
C29_Witness ==
    /\ Has(liveMap, "s1")
    /\ Has(liveMap, "s2")
    /\ ~Get(liveMap, "s1").lastTrack
    /\ Get(liveMap, "s1").lastSeen > Get(liveMap, "s1").since

\* whether this step handles a presence start of user u
StartsPresence(u) == OnPresence("start", u, clock)

\* C30 (as claimed): an entry of user U appears in the directory only at a
\* presence start of U; a track / pause event or a ping of a user without an
\* entry, as after a presence stop, creates none.
C30_PresenceLifecycle ==
    [][\A u \in Users : (~Has(liveMap, u) /\ Has(liveMap', u)) => StartsPresence(u)]_vars

(***************************************************************************)
(* Properties of two clients on the relay                                  *)
(***************************************************************************)
\* the peer's connection is closed, the lobby client's is open
PeerLeft ==
    /\ Len(wsClients) >= PeerConn
    /\ wsClients[PeerConn].readyState = "CLOSED"
    /\ ClientConn \in Clients

\* C31 (as claimed): once the connection that announced f1's follow edges has
\* closed, every edge of f1 that the lobby client still holds is removed from
\* its follow graph eventually.
C31_EdgeRemovedOnClose ==
    \A t \in Users :
        (PeerLeft /\ "f1" \in Audience(followers, t)) ~> ("f1" \notin Audience(followers, t))

(***************************************************************************)
(* Properties of the routes that proxy Spotify, continued                  *)
(***************************************************************************)
\* C32 (as claimed): a request to /spotify/devices, /spotify/transfer,
\* /spotify/play or /spotify/pause that has an sp_rt cookie is answered 401 for
\* a provider 401 only after one refresh exchange was made for that 401 and,
\* when the exchange gave a token, the call was made once more with it.
C32_ControlRefreshRetry ==
    (/\ Answered
     /\ proxy[1].request.route \in {"devices", "transfer", "play", "pause"}
     /\ proxy[1].request.sp_rt # 0
     /\ proxy[1].answers # <<>>
     /\ proxy[1].answers[1].status = 401
     /\ proxy[1].response[1].status = 401)
        => LET px == proxy[1]
               early == IF AccessTokenOf(px.request) = <<>> THEN 1 ELSE 0
           IN  /\ Len(px.refreshes) = early + 1
               /\ px.exchanges[Len(px.exchanges)].status = 200 => Len(px.answers) = 2

\* the sp_at cookies written for the request, and the exchanges that gave a token
SpAtCookies(px) == SelectSeq(px.cookies, LAMBDA c : c.name = "sp_at")

Granted(px) == SelectSeq(px.exchanges, LAMBDA a : a.status = 200)

\* C33 (as claimed): every sp_at cookie a route stores after a refresh exchange
\* has the lifetime (expires_in - 30) s of that exchange, 3600 taken when
\* expires_in is absent, and the lifetime is strictly positive.
C33_StoredLifetime ==
    proxy # <<>> =>
        LET px == proxy[1] IN
        /\ Len(SpAtCookies(px)) = Len(Granted(px))
        /\ \A i \in 1..Len(SpAtCookies(px)) :
              /\ SpAtCookies(px)[i].maxAge = (OrElse(Granted(px)[i].expires_in, 3600) - 30) * 1000
              /\ SpAtCookies(px)[i].maxAge > 0

\* the refresh token of the session after the first i exchanges of the request:
\* the cookie's, advanced by every exchange that rotated it
RECURSIVE Newest(_, _)
Newest(px, i) ==
    IF i = 0 THEN px.request.sp_rt
    ELSE IF px.exchanges[i].status = 200 /\ px.exchanges[i].rotated THEN px.refreshes[i] + 1
    ELSE Newest(px, i - 1)

\* C38 (as claimed): every refresh exchange of a request presents the newest
\* refresh token of the session: the one a rotating exchange earlier in the
\* same request returned, if there was one, and the cookie's otherwise.
C38_NewestRefreshToken ==
    proxy # <<>> =>
        \A i \in 1..Len(proxy[1].refreshes) : proxy[1].refreshes[i] = Newest(proxy[1], i - 1)

(***************************************************************************)
(* Properties of the sender with nothing playing or nothing answered       *)
(***************************************************************************)
\* a presence ping is due: the socket is open and the last ping, or the start
\* of sharing, is more than PING_MS ago
PingDue == readyState = "OPEN" /\ clock - lastPresencePingRef > PING_MS

C34_Step ==
    (Poll /\ player = <<>>) =>
        /\ sent' = sent
        /\ lastBroadcastRef' = lastBroadcastRef
        /\ hasSentInitialRef' = hasSentInitialRef
        /\ isSharing'
        /\ lastPresencePingRef' = IF PingDue THEN clock ELSE lastPresencePingRef

\* C34: a tick of the follow-based sender whose answer has no track sends no
\* track / pause event and leaves lastBroadcastRef alone; it sends the presence
\* ping, and notes its time, exactly when the socket is open and more than
\* PING_MS have passed since the last ping or the start of sharing.
C34_NoPlayingItem == [][C34_Step]_vars

\* a sender that never had a track has pinged 14 s after it started sharing
C34_Witness ==
    /\ isSharing
    /\ player = <<>>
    /\ senderNow = <<>>
    /\ sent = NoMsg
    /\ lastBroadcastRef = NoBroadcast
    /\ lastPresencePingRef = T0 + PING_MS + POLL_MS
    /\ clock = lastPresencePingRef

(***************************************************************************)
(* Properties of the broadcast relay                                       *)
(***************************************************************************)
\* whether the step is the relay's message handler given a JSON text
RelayStep ==
    /\ variant = "follow"
    /\ handled'[1].kind = "message"
    /\ ParseJson(handled'[1].raw) # <<>>

C35_Step ==
    variant = "follow" =>
        /\ DOMAIN delivered' = DOMAIN wsClients'
        /\ RelayStep =>
              LET c == handled'[1].conn
                  data == ParseJson(handled'[1].raw)[1]
              IN  \A x \in DOMAIN wsClients :
                      delivered'[x] = IF x # c /\ wsClients[x].readyState = "OPEN"
                                      THEN <<Encode(data)>>
                                      ELSE <<>>
        /\ ~RelayStep => \A x \in DOMAIN delivered' : delivered'[x] = <<>>

\* C35: a JSON text the relay receives goes once to every other connection
\* that is open at that moment and not to the connection it came from; no
\* other step of the server sends anything, so a message is not sent again and
\* a connection that opens later does not get it.
C35_RelayDelivery == [][C35_Step]_vars

\* a JSON text of one connection has reached the other open connection and
\* not its sender
C35_Witness ==
    /\ variant = "follow"
    /\ Len(wsClients) = MaxConns
    /\ \A x \in DOMAIN wsClients : wsClients[x].readyState = "OPEN"
    /\ handled # <<>>
    /\ handled[1].kind = "message"
    /\ ~handled[1].afterDrop
    /\ ParseJson(handled[1].raw) # <<>>
    /\ delivered[handled[1].conn] = <<>>
    /\ \A x \in DOMAIN delivered \ {handled[1].conn} : delivered[x] = <<handled[1].raw>>

(***************************************************************************)
(* Properties of the sender whose ticks fail                               *)
(***************************************************************************)
\* the hints of a tick that failed: the catch's, and the one of an answer
\* without a track
FaultHints == {"fetch_error", "no_item"}

\* whether the step is a tick of a sharing sender that failed or was answered
\* with an error although the player has a track
FaultStep ==
    /\ isSharing
    /\ clock = nextPoll
    /\ nextPoll' # nextPoll
    /\ player # <<>>
    /\ hint' \in FaultHints

\* whether the step is a tick that is answered with the player's track, after a
\* tick that failed, and sees another track or play state than was broadcast
RecoveryStep ==
    /\ isSharing
    /\ clock = nextPoll
    /\ nextPoll' # nextPoll
    /\ hint \in FaultHints
    /\ hint' \notin FaultHints
    /\ player # <<>>
    /\ \/ player[1].trackId # lastBroadcastRef.trackId
       \/ player[1].is_playing # lastBroadcastRef.is_playing

\* the tick sends the event of what it sees and retains it
EmitsObserved ==
    /\ sent' # sent
    /\ sent'.trackId = player[1].trackId
    /\ sent'.is_playing = player[1].is_playing
    /\ sent'.progress_ms = player[1].progress_ms
    /\ sent'.ts = clock
    /\ lastBroadcastRef' = Broadcast(player[1].trackId, player[1].progress_ms,
                                      player[1].is_playing, clock)

\* a failed tick sets a hint, keeps sharing, sends nothing, leaves lastBroadcast
\* alone, and the next tick stays scheduled
FaultIsTransient ==
    FaultStep =>
        /\ isSharing'
        /\ lastBroadcastRef' = lastBroadcastRef
        /\ hasSentInitialRef' = hasSentInitialRef
        /\ sent' = sent
        /\ nextPoll' = clock + POLL_MS

\* C36 (as claimed): a tick that fails or is answered with an error sets a hint
\* and changes neither the sharing state nor lastBroadcast, polling goes on, and
\* a later tick that succeeds and sees a changed track or play state emits the
\* event.
C36_TransientErrors == [][FaultIsTransient /\ (RecoveryStep => EmitsObserved)]_vars

\* C36 (amended): ... and a later tick that succeeds with the socket open and
\* sees a changed track or play state emits the event; with the socket not open
\* it sends nothing and leaves lastBroadcast alone, so that the change is still
\* there for the tick after it.
C36_TransientErrorsOpen ==
    [][/\ FaultIsTransient
       /\ RecoveryStep =>
             IF readyState = "OPEN"
             THEN EmitsObserved
             ELSE sent' = sent /\ lastBroadcastRef' = lastBroadcastRef]_vars

\* after a tick that failed the next tick is due, the socket is open, and the
\* player is on another track than the one broadcast before the failure
C36_Witness ==
    /\ isSharing
    /\ hint = "fetch_error"
    /\ clock = nextPoll
    /\ readyState = "OPEN"
    /\ hasSentInitialRef
    /\ lastBroadcastRef.sentAt < clock - POLL_MS
    /\ player # <<>>
    /\ player[1].trackId # lastBroadcastRef.trackId

(***************************************************************************)
(* Properties of a client that joins a sender already sharing              *)
(***************************************************************************)
\* the sender's client sent the presence start of u when the lobby client had
\* no connection yet
StartedBefore(u) ==
    /\ ClientConn \notin DOMAIN wsClients
    /\ handled # <<>>
    /\ handled[1].kind = "message"
    /\ handled[1].conn = PeerConn
    /\ handled[1].raw = Encode(WireMsg("presence", "start", u, NoUser, clock))

\* whether what the relay sent the lobby client last is a presence message of u
PresenceAt(action, u) ==
    /\ ClientConn \in Clients
    /\ delivered[ClientConn] # <<>>
    /\ LET data == ParseJson(delivered[ClientConn][1])[1]
       IN  data.type = "presence" /\ data.action = action /\ data.user = u

\* no presence stop of u is sent
KeepsSharing(u) ==
    ~(/\ handled # <<>>
      /\ handled[1].kind = "message"
      /\ handled[1].raw = Encode(WireMsg("presence", "stop", u, NoUser, clock)))

\* C37 (as claimed): a client that connects after the presence start of a
\* sender was broadcast lists the sender in the end, if the sender keeps sharing
\* and its pings keep reaching the client.
C37_LateJoinerLists ==
    \A u \in Users :
        (<>StartedBefore(u) /\ []KeepsSharing(u) /\ []<>PresenceAt("ping", u)) => <>Listed(u)

(***************************************************************************)
(* Properties of the room server's rooms and directory                     *)
(***************************************************************************)
\* whether the step is the room server's handler given the JSON text of a
\* message of one of the types
RoomStep(types) ==
    /\ variant = "room"
    /\ handled'[1].kind = "message"
    /\ ParseJson(handled'[1].raw) # <<>>
    /\ ParseJson(handled'[1].raw)[1].type \in types

C39_Step ==
    RoomStep({"sync", "track", "snapshot_request"}) =>
        LET c == handled'[1].conn IN
        \A x \in DOMAIN delivered' :
            delivered'[x] # <<>> =>
                /\ x # c
                /\ wsClients[x].readyState = "OPEN"
                /\ wsClients[x].meta.roomId = wsClients[c].meta.roomId

\* C39 (as claimed): whatever identify, join, go_live and go_offline messages
\* and closes came before, a sync, track or snapshot_request message of a
\* connection is delivered only to other open connections whose meta.roomId is
\* the sender's.
C39_RoomScopedRelay == [][C39_Step]_vars

\* whether the last message handled is the go_live of a connection that is
\* still open
WentLive ==
    /\ variant = "room"
    /\ handled # <<>>
    /\ handled[1].kind = "message"
    /\ ParseJson(handled[1].raw) # <<>>
    /\ ParseJson(handled[1].raw)[1].type = "go_live"
    /\ wsClients[handled[1].conn].readyState = "OPEN"

C40_Step ==
    WentLive =>
        LET host == handled[1].conn
            roomId == ParseJson(handled[1].raw)[1].roomId
        IN  /\ wsClients'[host].readyState = "CLOSED" => ~Has(directory', roomId)
            /\ (RoomStep({"go_offline"}) /\ handled'[1].conn # host) => Has(directory', roomId)

\* C40 (as claimed): when the connection that sent go_live for a room closes
\* or is terminated by the heartbeat, the room leaves the directory, so that
\* every room listed has a host connection that is open; a go_offline of a
\* connection that is not the room's host does not remove the room.
C40_DirectoryLive == [][C40_Step]_vars

====
